---- MODULE Spec2Model ----
(***************************************************************************)
(* SheetFreak: the Sheets API client wrapper (SheetsClient), its A1-range  *)
(* resolver and its error utilities, as a state machine.                   *)
(*                                                                         *)
(* A JavaScript string is a sequence of one-character strings, so that     *)
(* split, the regular expression, charCodeAt and parseInt are computed     *)
(* character by character as the code computes them.  The value of an      *)
(* error's `code` property is a string: a SheetFreakError code is its      *)
(* name ("NOT_FOUND"), a numeric HTTP status is its decimal text ("404"),  *)
(* and a missing code is "undefined"; no SheetFreakError code is the text  *)
(* of a number, so `error.code === 404` is the comparison with "404".      *)
(***************************************************************************)
EXTENDS Integers, Sequences, FiniteSets, TLC

VARIABLES
  initialized,  \* SheetsClient.initialized
  sheets,       \* the remote spreadsheet: its sheets, [sheetId, title]
  project,      \* the remote Apps Script side: [spreadsheet, files]
  call,         \* the operation invoked and its arguments
  outcome,      \* what the operation returned or threw; Pending before it ran
  requests      \* the Sheets API requests the operation issued, in order

vars == <<initialized, sheets, project, call, outcome, requests>>

----------------------------------------------------------------------------
(* Characters *)

\* The characters of the model with their UTF-16 code units, in code order:
\* the punctuation the range grammar and sheet titles use, the digits, the
\* uppercase and the lowercase letters.
Punct == << <<" ", 32>>, <<"!", 33>>, <<"#", 35>>, <<"'", 39>>, <<"-", 45>>, <<":", 58>>, <<"_", 95>> >>

Digits == << "0", "1", "2", "3", "4", "5", "6", "7", "8", "9" >>

Upper ==
  << "A", "B", "C", "D", "E", "F", "G", "H", "I", "J", "K", "L", "M" >> \o
  << "N", "O", "P", "Q", "R", "S", "T", "U", "V", "W", "X", "Y", "Z" >>

Lower ==
  << "a", "b", "c", "d", "e", "f", "g", "h", "i", "j", "k", "l", "m" >> \o
  << "n", "o", "p", "q", "r", "s", "t", "u", "v", "w", "x", "y", "z" >>

Chars ==
  {Punct[i][1] : i \in 1..Len(Punct)} \cup {Digits[i] : i \in 1..Len(Digits)}
    \cup {Upper[i] : i \in 1..Len(Upper)} \cup {Lower[i] : i \in 1..Len(Lower)}

\* String.prototype.charCodeAt for one character ("0" is 48, "A" 65, "a" 97).
CharCode ==
  [c \in Chars |->
     IF \E i \in 1..Len(Digits) : Digits[i] = c
       THEN 47 + (CHOOSE i \in 1..Len(Digits) : Digits[i] = c)
     ELSE IF \E i \in 1..Len(Upper) : Upper[i] = c
       THEN 64 + (CHOOSE i \in 1..Len(Upper) : Upper[i] = c)
     ELSE IF \E i \in 1..Len(Lower) : Lower[i] = c
       THEN 96 + (CHOOSE i \in 1..Len(Lower) : Lower[i] = c)
     ELSE Punct[CHOOSE i \in 1..Len(Punct) : Punct[i][1] = c][2]]

\* The regular expression class [A-Z].
IsUpper(c) == CharCode[c] >= CharCode["A"] /\ CharCode[c] <= CharCode["Z"]

\* The regular expression class \d.
IsDigit(c) == CharCode[c] >= CharCode["0"] /\ CharCode[c] <= CharCode["9"]

\* The substring s[from..to] (1-based, inclusive; empty when from > to).
Sub(s, from, to) == SubSeq(s, from, to)

----------------------------------------------------------------------------
(* JavaScript string operations *)

\* The position of the first character of s, at or after position from, that
\* equals sep; Len(s) + 1 when there is none.
RECURSIVE IndexOf(_, _, _)
IndexOf(s, sep, from) ==
  IF from > Len(s) THEN Len(s) + 1
  ELSE IF s[from] = sep THEN from
  ELSE IndexOf(s, sep, from + 1)

\* String.prototype.split with a one-character separator: every occurrence
\* of sep separates two parts, and a string without sep is its only part.
RECURSIVE Split(_, _)
Split(s, sep) ==
  LET i == IndexOf(s, sep, 1)
  IN  IF i > Len(s) THEN <<s>>
      ELSE <<Sub(s, 1, i - 1)>> \o Split(Sub(s, i + 1, Len(s)), sep)

\* The end (exclusive) of the longest run of uppercase letters of s that
\* starts at position from: the greedy match of [A-Z]* there.
RECURSIVE UpperRun(_, _)
UpperRun(s, from) ==
  IF from <= Len(s) /\ IsUpper(s[from]) THEN UpperRun(s, from + 1) ELSE from

\* The greedy match of \d* at position from.
RECURSIVE DigitRun(_, _)
DigitRun(s, from) ==
  IF from <= Len(s) /\ IsDigit(s[from]) THEN DigitRun(s, from + 1) ELSE from

NoMatch == <<>>

MatchA1Unanchored(s) ==
  LET p1 == UpperRun(s, 1)
      p2 == DigitRun(s, p1)
      p3 == UpperRun(s, p2 + 1)
      p4 == DigitRun(s, p3)
  IN  IF /\ p1 > 1
         /\ p2 > p1
         /\ p2 <= Len(s) /\ s[p2] = ":"
         /\ p3 > p2 + 1
         /\ p4 > p3
      THEN << Sub(s, 1, p1 - 1), Sub(s, p1, p2 - 1),
              Sub(s, p2 + 1, p3 - 1), Sub(s, p3, p4 - 1) >>
      ELSE NoMatch

\* a1Range.match(/^([A-Z]+)(\d+):([A-Z]+)(\d+)$/): the four groups, or NoMatch.
\* The character classes are disjoint, so the greedy runs are the only match.
MatchA1(s) ==
  LET p1 == UpperRun(s, 1)
      p2 == DigitRun(s, p1)
      p3 == UpperRun(s, p2 + 1)
      p4 == DigitRun(s, p3)
  IN  IF /\ p1 > 1
         /\ p2 > p1
         /\ p2 <= Len(s) /\ s[p2] = ":"
         /\ p3 > p2 + 1
         /\ p4 > p3
         /\ p4 = Len(s) + 1
      THEN << Sub(s, 1, p1 - 1), Sub(s, p1, p2 - 1),
              Sub(s, p2 + 1, p3 - 1), Sub(s, p3, p4 - 1) >>
      ELSE NoMatch

\* parseInt of a string of decimal digits (the groups (\d+) of the match).
RECURSIVE ParseInt(_)
ParseInt(d) ==
  IF d = <<>> THEN 0
  ELSE ParseInt(Sub(d, 1, Len(d) - 1)) * 10 + (CharCode[d[Len(d)]] - CharCode["0"])

ColumnStepOffByOne(index, c) == index * 26 + (CharCode[c] - CharCode["A"])

\* One iteration of columnToIndex's loop.
ColumnStep(index, c) == index * 26 + (CharCode[c] - CharCode["A"] + 1)

\* SheetsClient.columnToIndex: A -> 0, Z -> 25, AA -> 26.
RECURSIVE ColumnAcc(_, _, _)
ColumnAcc(col, i, index) ==
  IF i > Len(col) THEN index ELSE ColumnAcc(col, i + 1, ColumnStep(index, col[i]))

columnToIndex(col) == ColumnAcc(col, 1, 0) - 1

----------------------------------------------------------------------------
(* Errors *)

Undefined == [undefined |-> TRUE]

\* The string "unknown".
StrUnknown == << "u", "n", "k", "n", "o", "w", "n" >>

\* A message: its template and the values interpolated into it.
Msg(fmt, args) == [fmt |-> fmt, args |-> args]

SheetFreakError(code, message, details) ==
  [name |-> "SheetFreakError", code |-> code, message |-> message, details |-> details]

authenticationError(details) ==
  SheetFreakError("AUTHENTICATION_ERROR",
                  Msg("Failed to authenticate with Google APIs. Check your credentials.", <<>>),
                  details)

notFound(resource, id) ==
  SheetFreakError("NOT_FOUND", Msg("${resource} not found", <<resource>>), [id |-> id])

quotaExceeded ==
  SheetFreakError("QUOTA_EXCEEDED", Msg("API quota exceeded. Please try again later.", <<>>),
                  Undefined)

\* new SheetFreakError("INVALID_INPUT", `Invalid range format: ${range}. Use A1:B10 notation`)
invalidRangeFormat(range) ==
  SheetFreakError("INVALID_INPUT",
                  Msg("Invalid range format: ${range}. Use A1:B10 notation", <<range>>),
                  Undefined)

\* The error the googleapis client throws for a failed request: its code is
\* the HTTP status, or undefined when no response arrived.
GoogleError(status) ==
  [name |-> "GaxiosError", code |-> status, message |-> Msg("google api error", <<>>),
   details |-> Undefined]

handleGoogleAPIErrorPassingThrough(error) ==
  IF error.name = "SheetFreakError" THEN error
  ELSE IF error.code = "401" \/ error.code = "403" THEN authenticationError(error.message)
  ELSE IF error.code = "404" THEN notFound("Resource", StrUnknown)
  ELSE IF error.code = "429" THEN quotaExceeded
  ELSE SheetFreakError("API_ERROR",
                       IF error.message.fmt = ""
                         THEN Msg("An error occurred while calling Google API", <<>>)
                         ELSE error.message,
                       error)

\* handleGoogleAPIError: the error it throws for the error it is given.
handleGoogleAPIError(error) ==
  IF error.code = "401" \/ error.code = "403" THEN authenticationError(error.message)
  ELSE IF error.code = "404" THEN notFound("Resource", StrUnknown)
  ELSE IF error.code = "429" THEN quotaExceeded
  ELSE SheetFreakError("API_ERROR",
                       IF error.message.fmt = ""
                         THEN Msg("An error occurred while calling Google API", <<>>)
                         ELSE error.message,
                       error)
----------------------------------------------------------------------------
(* The client and the remote service *)

\* A method runs on the client state st = [initialized, requests] and either
\* returns a value or throws an error; st is the state it leaves.
Returned(st, v) == [threw |-> FALSE, value |-> v, st |-> st]
Threw(st, e) == [threw |-> TRUE, value |-> e, st |-> st]

\* `const a = x; ...`: the rest F of a method applied to the value of x,
\* which is computed once.
Let(x, F(_)) == CHOOSE y \in {F(a) : a \in {x}} : TRUE

\* `const a = await x; ...`: the rest F of a method runs on what x returned,
\* and an error x threw is thrown on.
Awaited(x, F(_)) == Let(x, LAMBDA a : IF a.threw THEN a ELSE F(a))

\* `try { x } catch (error) { H(error) }` with a handler that throws H(error).
TryCatch(x, H(_)) == Let(x, LAMBDA r : IF r.threw THEN Threw(r.st, H(r.value)) ELSE r)

\* The request is logged with the result the remote side gave it.
Sent(st, request) == [st EXCEPT !.requests = Append(@, request)]

\* What the remote side answers during one operation: whether authorize()
\* succeeds, and the result of spreadsheets.get and spreadsheets.batchUpdate
\* ("ok", an HTTP status, or "undefined" when no response arrives).
AuthResults == {"ok", "fail"}
ApiResults == {"ok", "401", "403", "404", "429", "500", "undefined"}
Envs == [auth : AuthResults, get : ApiResults, update : ApiResults]

\* this.client.authorize() of the JWT client
ClientAuthorize(st, env) ==
  IF env.auth = "ok"
    THEN Returned(Sent(st, [method |-> "auth.authorize", result |-> env.auth]), Undefined)
    ELSE Threw(Sent(st, [method |-> "auth.authorize", result |-> env.auth]),
               GoogleError("undefined"))

\* ServiceAccountAuth.authorize
authorize(st, env) ==
  TryCatch(ClientAuthorize(st, env),
           LAMBDA error : authenticationError(Msg("Failed to authorize with Google", <<>>)))

ensureAuthorizedEveryTime(st, env) ==
  Awaited(authorize(st, env),
          LAMBDA a : Returned([a.st EXCEPT !.initialized = TRUE], Undefined))

\* SheetsClient.ensureAuthorized
ensureAuthorized(st, env) ==
  IF ~st.initialized
    THEN Awaited(authorize(st, env),
                LAMBDA a : Returned([a.st EXCEPT !.initialized = TRUE], Undefined))
    ELSE Returned(st, Undefined)

\* this.sheets.spreadsheets.get of the googleapis client
SpreadsheetsGet(st, env, remoteSheets) ==
  IF env.get = "ok"
    THEN Returned(Sent(st, [method |-> "spreadsheets.get", result |-> env.get]),
                  [sheets |-> remoteSheets])
    ELSE Threw(Sent(st, [method |-> "spreadsheets.get", result |-> env.get]),
               GoogleError(env.get))

getSpreadsheetRetrying(st, env, remoteSheets) ==
  Awaited(ensureAuthorized(st, env),
          LAMBDA a :
            TryCatch(
              Let(SpreadsheetsGet(a.st, env, remoteSheets),
                  LAMBDA r : IF r.threw THEN SpreadsheetsGet(r.st, env, remoteSheets) ELSE r),
              handleGoogleAPIError))

\* SheetsClient.getSpreadsheet
getSpreadsheet(st, env, remoteSheets) ==
  Awaited(ensureAuthorized(st, env),
         LAMBDA a : TryCatch(SpreadsheetsGet(a.st, env, remoteSheets), handleGoogleAPIError))

\* SheetsClient.listSheets
listSheets(st, env, remoteSheets) ==
  Awaited(ensureAuthorized(st, env),
         LAMBDA a :
           TryCatch(
             Awaited(getSpreadsheet(a.st, env, remoteSheets),
                    LAMBDA g :
                      Returned(g.st,
                        [i \in 1..Len(g.value.sheets) |->
                           [sheetId |-> g.value.sheets[i].sheetId,
                            title |-> g.value.sheets[i].title]])),
             handleGoogleAPIError))

FindByTitleOrFirst(list, title) ==
  IF \E i \in 1..Len(list) : list[i].title = title
    THEN CHOOSE i \in 1..Len(list) :
           /\ list[i].title = title
           /\ \A j \in 1..(i - 1) : list[j].title # title
    ELSE IF Len(list) > 0 THEN 1 ELSE 0

\* Array.prototype.find by title: the index of the first sheet with that
\* title, 0 when there is none.
FindByTitle(list, title) ==
  IF \E i \in 1..Len(list) : list[i].title = title
    THEN CHOOSE i \in 1..Len(list) :
           /\ list[i].title = title
           /\ \A j \in 1..(i - 1) : list[j].title # title
    ELSE 0

\* this.sheets.spreadsheets.batchUpdate of the googleapis client
SpreadsheetsBatchUpdate(st, env, reqs) ==
  IF env.update = "ok"
    THEN Returned(Sent(st, [method |-> "spreadsheets.batchUpdate", result |-> env.update,
                            requests |-> reqs]),
                  Undefined)
    ELSE Threw(Sent(st, [method |-> "spreadsheets.batchUpdate", result |-> env.update,
                         requests |-> reqs]),
               GoogleError(env.update))

\* SheetsClient.batchUpdate
batchUpdate(st, env, reqs) ==
  Awaited(ensureAuthorized(st, env),
         LAMBDA a : TryCatch(SpreadsheetsBatchUpdate(a.st, env, reqs), handleGoogleAPIError))

----------------------------------------------------------------------------
(* The A1-range resolver *)

\* The sheet title and the cell range rangeToGridRange takes from the parts
\* of range.split("!"); the title is undefined (hasTitle false) when the
\* split gives one part.
PartsOf(parts) ==
  [hasTitle |-> Len(parts) > 1,
   sheetTitle |-> IF Len(parts) > 1 THEN parts[1] ELSE <<>>,
   a1Range |-> IF Len(parts) > 1 THEN parts[2] ELSE parts[1]]

RangeParts(range) == Let(Split(range, "!"), PartsOf)

GridRangeInclusiveEnd(sheetId, match) ==
  [sheetId |-> sheetId,
   startRowIndex |-> ParseInt(match[2]) - 1,
   endRowIndex |-> ParseInt(match[4]),
   startColumnIndex |-> columnToIndex(match[1]),
   endColumnIndex |-> columnToIndex(match[3])]

\* The GridRange rangeToGridRange returns for the groups of the match.
GridRange(sheetId, match) ==
  [sheetId |-> sheetId,
   startRowIndex |-> ParseInt(match[2]) - 1,
   endRowIndex |-> ParseInt(match[4]),
   startColumnIndex |-> columnToIndex(match[1]),
   endColumnIndex |-> columnToIndex(match[3]) + 1]

\* The second half of rangeToGridRange: the match and the indices.
ParseA1(st, range, a1Range, sheetId) ==
  Let(MatchA1(a1Range),
      LAMBDA match :
        IF match = NoMatch THEN Threw(st, invalidRangeFormat(range))
        ELSE Returned(st, GridRange(sheetId, match)))

SheetIdOfActiveSheet(st, env, remoteSheets, p) ==
  Awaited(listSheets(st, env, remoteSheets),
          LAMBDA l :
            Let(IF p.hasTitle /\ p.sheetTitle # <<>>
                  THEN FindByTitle(l.value, p.sheetTitle)
                  ELSE IF Len(l.value) > 0 THEN 1 ELSE 0,
                LAMBDA i :
                  IF i = 0 THEN Threw(l.st, notFound("Sheet", p.sheetTitle))
                  ELSE Returned(l.st, l.value[i].sheetId)))

\* The first half of rangeToGridRange: the sheet id of the title.
SheetIdOf(st, env, remoteSheets, p) ==
  IF p.hasTitle /\ p.sheetTitle # <<>>
    THEN Awaited(listSheets(st, env, remoteSheets),
                LAMBDA l :
                  Let(FindByTitle(l.value, p.sheetTitle),
                      LAMBDA i :
                        IF i = 0 THEN Threw(l.st, notFound("Sheet", p.sheetTitle))
                        ELSE Returned(l.st, l.value[i].sheetId)))
    ELSE Returned(st, 0)

\* SheetsClient.rangeToGridRange
rangeToGridRange(st, env, remoteSheets, range) ==
  Let(RangeParts(range),
      LAMBDA p :
        Awaited(SheetIdOf(st, env, remoteSheets, p),
               LAMBDA s : ParseA1(s.st, range, p.a1Range, s.value)))

----------------------------------------------------------------------------
(* Colours *)

\* A number of a colour channel: the fraction num/den, or NaN.
Ratio(n, d) == [num |-> n, den |-> d]
NaN == [nan |-> TRUE]

\* A colour argument is a string, [str |-> characters], or a Color object,
\* [obj |-> the object]; typeof tells them apart.
IsString(color) == "str" \in DOMAIN color

\* String.prototype.substring(from, to), both zero-based and clamped.
Substring(s, from, to) ==
  Sub(s, from + 1, IF to < Len(s) THEN to ELSE Len(s))

\* String.prototype.replace(c, ""): the first occurrence of c removed.
RemoveFirst(s, c) ==
  LET i == IndexOf(s, c, 1)
  IN  IF i > Len(s) THEN s ELSE Sub(s, 1, i - 1) \o Sub(s, i + 1, Len(s))

IsHexDigit(c) ==
  \/ IsDigit(c)
  \/ CharCode[c] >= CharCode["A"] /\ CharCode[c] <= CharCode["F"]
  \/ CharCode[c] >= CharCode["a"] /\ CharCode[c] <= CharCode["f"]

HexValue(c) ==
  IF IsDigit(c) THEN CharCode[c] - CharCode["0"]
  ELSE IF CharCode[c] <= CharCode["F"] THEN CharCode[c] - CharCode["A"] + 10
  ELSE CharCode[c] - CharCode["a"] + 10

RECURSIVE HexRun(_, _)
HexRun(s, from) ==
  IF from <= Len(s) /\ IsHexDigit(s[from]) THEN HexRun(s, from + 1) ELSE from

RECURSIVE HexNumber(_)
HexNumber(d) ==
  IF d = <<>> THEN 0 ELSE HexNumber(Sub(d, 1, Len(d) - 1)) * 16 + HexValue(d[Len(d)])

RECURSIVE SkipSpaces(_)
SkipSpaces(s) == IF s # <<>> /\ s[1] = " " THEN SkipSpaces(Tail(s)) ELSE s

\* parseInt(s, 16): leading white space, a sign and a 0x prefix are skipped,
\* then the longest run of hex digits is the number; NaN when that is empty.
ParseIntHex(s) ==
  LET t == SkipSpaces(s)
      neg == t # <<>> /\ t[1] = "-"
      u == IF neg THEN Tail(t) ELSE t
      v == IF Len(u) >= 2 /\ u[1] = "0" /\ (u[2] = "x" \/ u[2] = "X")
             THEN Sub(u, 3, Len(u)) ELSE u
      e == HexRun(v, 1)
  IN  IF e = 1 THEN NaN
      ELSE Ratio((IF neg THEN -1 ELSE 1) * HexNumber(Sub(v, 1, e - 1)), 1)

Over256(x) == IF x = NaN THEN NaN ELSE Ratio(x.num, x.den * 256)

\* x / 255
Over255(x) == IF x = NaN THEN NaN ELSE Ratio(x.num, x.den * 255)

\* SheetsClient.parseColor
parseColor(color) ==
  IF IsString(color)
    THEN LET hex == RemoveFirst(color.str, "#")
         IN  [red |-> Over255(ParseIntHex(Substring(hex, 0, 2))),
              green |-> Over255(ParseIntHex(Substring(hex, 2, 4))),
              blue |-> Over255(ParseIntHex(Substring(hex, 4, 6))),
              alpha |-> Ratio(1, 1)]
    ELSE color.obj

\* A colour argument in a condition: an object is truthy, a string when it
\* is not empty.
TruthyColor(color) == IsString(color) => color.str # <<>>

----------------------------------------------------------------------------
(* The colour tokens of the command line (commands/format.ts) *)

\* What a synchronous function returns or throws.
Gave(v) == [threw |-> FALSE, value |-> v]
Thrown(e) == [threw |-> TRUE, value |-> e]

\* colorInput.startsWith(c)
StartsWith(s, c) == s # <<>> /\ s[1] = c

\* /^[0-9A-Fa-f]{6}$/.test(s)
TestHex6(s) == Len(s) = 6 /\ \A i \in 1..Len(s) : IsHexDigit(s[i])

ToLowerCaseIdentity(s) == s

\* String.prototype.toLowerCase on the characters of the model.
toLowerCase(s) ==
  [i \in 1..Len(s) |->
     IF IsUpper(s[i]) THEN Lower[CharCode[s[i]] - CharCode["A"] + 1] ELSE s[i]]

\* A colour literal { red, green, blue, alpha: 1 } whose channels are written
\* in hundredths (0.65 is 65/100).
Literal(r, g, b) ==
  [red |-> Ratio(r, 100), green |-> Ratio(g, 100), blue |-> Ratio(b, 100),
   alpha |-> Ratio(1, 1)]

\* The object literal namedColors: its own properties in source order.
namedColors ==
  << [name |-> << "r", "e", "d" >>, color |-> Literal(100, 0, 0)],
     [name |-> << "g", "r", "e", "e", "n" >>, color |-> Literal(0, 100, 0)],
     [name |-> << "b", "l", "u", "e" >>, color |-> Literal(0, 0, 100)],
     [name |-> << "y", "e", "l", "l", "o", "w" >>, color |-> Literal(100, 100, 0)],
     [name |-> << "o", "r", "a", "n", "g", "e" >>, color |-> Literal(100, 65, 0)],
     [name |-> << "p", "u", "r", "p", "l", "e" >>, color |-> Literal(50, 0, 50)],
     [name |-> << "p", "i", "n", "k" >>, color |-> Literal(100, 75, 80)],
     [name |-> << "w", "h", "i", "t", "e" >>, color |-> Literal(100, 100, 100)],
     [name |-> << "b", "l", "a", "c", "k" >>, color |-> Literal(0, 0, 0)],
     [name |-> << "g", "r", "a", "y" >>, color |-> Literal(50, 50, 50)],
     [name |-> << "l", "i", "g", "h", "t", "g", "r", "a", "y" >>, color |-> Literal(83, 83, 83)],
     [name |-> << "d", "a", "r", "k", "g", "r", "a", "y" >>, color |-> Literal(66, 66, 66)] >>

\* The properties an object literal inherits from Object.prototype under an
\* all-lowercase key: constructor (the function Object) and __proto__ (the
\* prototype itself).
StrConstructor == << "c", "o", "n", "s", "t", "r", "u", "c", "t", "o", "r" >>
StrProto == << "_", "_", "p", "r", "o", "t", "o", "_", "_" >>
Inherited(key) ==
  IF key = StrConstructor THEN [function |-> "Object"]
  ELSE IF key = StrProto THEN [prototype |-> "Object"]
  ELSE Undefined

\* namedColors[key]: an own property, else an inherited one, else undefined.
NamedColor(key) ==
  IF \E i \in 1..Len(namedColors) : namedColors[i].name = key
    THEN namedColors[CHOOSE i \in 1..Len(namedColors) : namedColors[i].name = key].color
    ELSE Inherited(key)

invalidColorFormat(colorInput) ==
  SheetFreakError("INVALID_INPUT",
    Msg("Invalid color format: ${colorInput}. Use hex (#RRGGBB) or named color (red, green, blue, etc.)",
        <<colorInput>>),
    Undefined)

\* parseColorInput of commands/format.ts
parseColorInput(colorInput) ==
  IF StartsWith(colorInput, "#") \/ TestHex6(colorInput)
    THEN LET hex == RemoveFirst(colorInput, "#")
         IN  Gave([red |-> Over255(ParseIntHex(Substring(hex, 0, 2))),
                   green |-> Over255(ParseIntHex(Substring(hex, 2, 4))),
                   blue |-> Over255(ParseIntHex(Substring(hex, 4, 6))),
                   alpha |-> Ratio(1, 1)])
    ELSE LET color == NamedColor(toLowerCase(colorInput))
         IN  IF color # Undefined THEN Gave(color) ELSE Thrown(invalidColorFormat(colorInput))
----------------------------------------------------------------------------
(* formatCells and applyBorders *)

Has(obj, key) == key \in DOMAIN obj

TextFormatKeys ==
  << "bold", "italic", "underline", "strikethrough", "fontSize", "fontFamily",
     "foregroundColor" >>

\* The condition under which formatCells copies a textFormat property.
TextFieldSet(tf, k) ==
  CASE k = "fontSize" -> Has(tf, k) /\ tf[k] # 0
    [] k = "fontFamily" -> Has(tf, k) /\ tf[k] # ""
    [] k = "foregroundColor" -> Has(tf, k) /\ TruthyColor(tf[k])
    [] OTHER -> Has(tf, k)

TextFieldValue(tf, k) == IF k = "foregroundColor" THEN parseColor(tf[k]) ELSE tf[k]

FormatKeys ==
  << "backgroundColor", "textFormat", "horizontalAlignment", "verticalAlignment",
     "wrapStrategy", "numberFormat" >>

\* The condition under which formatCells copies a property of the format.
FieldSet(format, k) ==
  CASE k = "backgroundColor" -> Has(format, k) /\ TruthyColor(format[k])
    [] k = "textFormat" -> Has(format, k)
    [] k = "numberFormat" -> Has(format, k)
    [] OTHER -> Has(format, k) /\ format[k] # ""

\* cellFormatRequest as formatCells leaves it.
CellFormatRequest(format) ==
  [k \in {key \in DOMAIN format : FieldSet(format, key)} |->
     CASE k = "backgroundColor" -> parseColor(format[k])
       [] k = "textFormat" ->
            [t \in {key \in DOMAIN format[k] : TextFieldSet(format[k], key)} |->
               TextFieldValue(format[k], t)]
       [] OTHER -> format[k]]

\* The names formatCells pushes for one property of the format, in order.
FieldNames(format, k) ==
  IF ~FieldSet(format, k) THEN <<>>
  ELSE IF k = "textFormat"
    THEN LET set == SelectSeq(TextFormatKeys, LAMBDA t : TextFieldSet(format[k], t))
         IN  [i \in 1..Len(set) |-> <<"textFormat", set[i]>>]
  ELSE << <<k>> >>

\* fields as formatCells leaves it: every name is the path of a property
\* (textFormat.bold is <<"textFormat", "bold">>).
RECURSIVE FieldsFrom(_, _)
FieldsFrom(format, i) ==
  IF i > Len(FormatKeys) THEN <<>>
  ELSE FieldNames(format, FormatKeys[i]) \o FieldsFrom(format, i + 1)

FieldsReversed(format) ==
  [i \in 1..Len(FieldsFrom(format, 1)) |->
     FieldsFrom(format, 1)[Len(FieldsFrom(format, 1)) + 1 - i]]

Fields(format) == FieldsFrom(format, 1)

\* The repeatCell request; its fields string is userEnteredFormat(...) around
\* the names joined by commas.
RepeatCell(gridRange, format) ==
  [repeatCell |->
     [range |-> gridRange,
      cell |-> [userEnteredFormat |-> CellFormatRequest(format)],
      fields |-> [wrapper |-> "userEnteredFormat", names |-> Fields(format)]]]

WholeSheet == [sheetId |-> 0]

formatCellsWholeSheet(st, env, remoteSheets, range, format) ==
  Awaited(ensureAuthorized(st, env),
          LAMBDA a :
            TryCatch(
              Let(rangeToGridRange(a.st, env, remoteSheets, range),
                  LAMBDA g :
                    batchUpdate(g.st, env,
                      <<RepeatCell(IF g.threw THEN WholeSheet ELSE g.value, format)>>)),
              handleGoogleAPIError))

formatCellsRefusingEmpty(st, env, remoteSheets, range, format) ==
  Awaited(ensureAuthorized(st, env),
          LAMBDA a :
            TryCatch(
              Awaited(rangeToGridRange(a.st, env, remoteSheets, range),
                      LAMBDA g :
                        IF Fields(format) = <<>>
                          THEN Threw(g.st, invalidRangeFormat(range))
                          ELSE batchUpdate(g.st, env, <<RepeatCell(g.value, format)>>)),
              handleGoogleAPIError))

\* SheetsClient.formatCells
formatCells(st, env, remoteSheets, range, format) ==
  Awaited(ensureAuthorized(st, env),
         LAMBDA a :
           TryCatch(
             Awaited(rangeToGridRange(a.st, env, remoteSheets, range),
                    LAMBDA g : batchUpdate(g.st, env, <<RepeatCell(g.value, format)>>)),
             handleGoogleAPIError))

EdgeKeys == << "top", "bottom", "left", "right" >>

\* One edge of the updateBorders request.
BorderEdge(edge) ==
  [style |-> IF Has(edge, "style") /\ edge.style # "" THEN edge.style ELSE "SOLID",
   color |-> IF Has(edge, "color") /\ TruthyColor(edge.color)
               THEN parseColor(edge.color)
               ELSE [red |-> Ratio(0, 1), green |-> Ratio(0, 1), blue |-> Ratio(0, 1)]]

UpdateBordersClearingAbsent(gridRange, borders) ==
  [updateBorders |->
     [k \in {"range", "top", "bottom", "left", "right"} |->
        IF k = "range" THEN gridRange
        ELSE IF k \in DOMAIN borders THEN BorderEdge(borders[k])
        ELSE [style |-> "NONE"]]]

\* The updateBorders request.
UpdateBorders(gridRange, borders) ==
  [updateBorders |->
     [k \in {"range"} \cup {e \in DOMAIN borders : \E i \in 1..Len(EdgeKeys) : EdgeKeys[i] = e} |->
        IF k = "range" THEN gridRange ELSE BorderEdge(borders[k])]]

\* SheetsClient.applyBorders
applyBorders(st, env, remoteSheets, range, borders) ==
  Awaited(ensureAuthorized(st, env),
         LAMBDA a :
           TryCatch(
             Awaited(rangeToGridRange(a.st, env, remoteSheets, range),
                    LAMBDA g : batchUpdate(g.st, env, <<UpdateBorders(g.value, borders)>>)),
             handleGoogleAPIError))

----------------------------------------------------------------------------
(* Sheets by title: deleteSheet, renameSheet and the resize operations *)

\* `const sheets = await this.listSheets(id); const sheet = sheets.find(...);
\* if (!sheet) throw notFound("Sheet", title); ...`: the rest F of the method
\* runs on the client state after the listing and the sheet found.
WithSheet(st, env, remoteSheets, title, F(_, _)) ==
  Awaited(listSheets(st, env, remoteSheets),
          LAMBDA l :
            Let(FindByTitle(l.value, title),
                LAMBDA i :
                  IF i = 0 THEN Threw(l.st, notFound("Sheet", title))
                  ELSE F(l.st, l.value[i])))

\* SheetsClient.deleteSheet
deleteSheet(st, env, remoteSheets, title) ==
  Awaited(ensureAuthorized(st, env),
          LAMBDA a :
            TryCatch(
              WithSheet(a.st, env, remoteSheets, title,
                LAMBDA t, sheet :
                  SpreadsheetsBatchUpdate(t, env,
                    <<[deleteSheet |-> [sheetId |-> sheet.sheetId]]>>)),
              handleGoogleAPIError))

\* SheetsClient.renameSheet
renameSheet(st, env, remoteSheets, oldTitle, newTitle) ==
  Awaited(ensureAuthorized(st, env),
          LAMBDA a :
            TryCatch(
              WithSheet(a.st, env, remoteSheets, oldTitle,
                LAMBDA t, sheet :
                  SpreadsheetsBatchUpdate(t, env,
                    <<[updateSheetProperties |->
                         [properties |-> [sheetId |-> sheet.sheetId, title |-> newTitle],
                          fields |-> "title"]]>>)),
              handleGoogleAPIError))

RowsRangeZeroBased(sheetId, startRow, endRow) ==
  [sheetId |-> sheetId, dimension |-> "ROWS", startIndex |-> startRow,
   endIndex |-> endRow + 1]

\* The dimension range resizeColumns and autoResizeColumns address.
ColumnsRange(sheetId, startColumn, endColumn) ==
  [sheetId |-> sheetId, dimension |-> "COLUMNS", startIndex |-> startColumn,
   endIndex |-> endColumn + 1]

\* The dimension range resizeRows addresses.
RowsRange(sheetId, startRow, endRow) ==
  [sheetId |-> sheetId, dimension |-> "ROWS", startIndex |-> startRow - 1,
   endIndex |-> endRow]

\* SheetsClient.resizeColumns
resizeColumns(st, env, remoteSheets, sheetTitle, startColumn, endColumn, pixelSize) ==
  Awaited(ensureAuthorized(st, env),
          LAMBDA a :
            TryCatch(
              WithSheet(a.st, env, remoteSheets, sheetTitle,
                LAMBDA t, sheet :
                  batchUpdate(t, env,
                    <<[updateDimensionProperties |->
                         [range |-> ColumnsRange(sheet.sheetId, startColumn, endColumn),
                          properties |-> [pixelSize |-> pixelSize],
                          fields |-> "pixelSize"]]>>)),
              handleGoogleAPIError))

\* SheetsClient.resizeRows
resizeRows(st, env, remoteSheets, sheetTitle, startRow, endRow, pixelSize) ==
  Awaited(ensureAuthorized(st, env),
          LAMBDA a :
            TryCatch(
              WithSheet(a.st, env, remoteSheets, sheetTitle,
                LAMBDA t, sheet :
                  batchUpdate(t, env,
                    <<[updateDimensionProperties |->
                         [range |-> RowsRange(sheet.sheetId, startRow, endRow),
                          properties |-> [pixelSize |-> pixelSize],
                          fields |-> "pixelSize"]]>>)),
              handleGoogleAPIError))

\* SheetsClient.autoResizeColumns
autoResizeColumns(st, env, remoteSheets, sheetTitle, startColumn, endColumn) ==
  Awaited(ensureAuthorized(st, env),
          LAMBDA a :
            TryCatch(
              WithSheet(a.st, env, remoteSheets, sheetTitle,
                LAMBDA t, sheet :
                  batchUpdate(t, env,
                    <<[autoResizeDimensions |->
                         [dimensions |->
                            ColumnsRange(sheet.sheetId, startColumn, endColumn)]]>>)),
              handleGoogleAPIError))

\* The spreadsheet after the remote side has carried out a request: a
\* deleteSheet removes the sheet, an updateSheetProperties with fields
\* "title" retitles it, and the other requests leave the sheet list alone.
RemoteAfter(remoteSheets, request) ==
  IF "deleteSheet" \in DOMAIN request
    THEN SelectSeq(remoteSheets, LAMBDA sh : sh.sheetId # request.deleteSheet.sheetId)
  ELSE IF "updateSheetProperties" \in DOMAIN request
    THEN [i \in 1..Len(remoteSheets) |->
            IF remoteSheets[i].sheetId = request.updateSheetProperties.properties.sheetId
              THEN [remoteSheets[i] EXCEPT
                      !.title = request.updateSheetProperties.properties.title]
              ELSE remoteSheets[i]]
  ELSE remoteSheets

\* The spreadsheet after an operation: the requests of its batchUpdate took
\* effect if the remote side answered ok.
RECURSIVE SheetsAfter(_, _, _)
SheetsAfter(remoteSheets, log, i) ==
  IF i > Len(log) THEN remoteSheets
  ELSE IF log[i].method = "spreadsheets.batchUpdate" /\ log[i].result = "ok"
    THEN SheetsAfter(RemoteAfter(remoteSheets, log[i].requests[1]), log, i + 1)
  ELSE SheetsAfter(remoteSheets, log, i + 1)

----------------------------------------------------------------------------
(* The format borders command (commands/format.ts) *)

\* The SheetsClient a command creates: not yet authorized, no request sent.
NewClient == [initialized |-> FALSE, requests |-> <<>>]

\* How the credentials are configured when a command runs: the path is set
\* and the file parses ("ok"), no path is configured ("unset"), the file is
\* not there ("missing") or is not JSON ("unparsable").
CredentialStates == {"ok", "unset", "missing", "unparsable"}

\* getAuthenticatedSheets with the ServiceAccountAuth constructor it calls.
getAuthenticatedSheets(credentials) ==
  CASE credentials = "unset" ->
         Thrown(SheetFreakError("NOT_CONFIGURED",
           Msg("Authentication not configured. Run: sheetfreak auth init <credentials.json>", <<>>),
           Undefined))
    [] credentials = "missing" ->
         Thrown(authenticationError([message |-> "Credentials file not found"]))
    [] credentials = "unparsable" ->
         Thrown(authenticationError([message |-> "Failed to parse credentials file"]))
    [] OTHER -> Gave(NewClient)

\* The error of fs.readFileSync on a file that is not there.
FileNotFound ==
  [name |-> "Error", code |-> "ENOENT", message |-> Msg("no such file or directory", <<>>),
   details |-> Undefined]

\* A flag of the command line is set when it is among the options and true.
Flag(options, k) == Has(options, k) /\ options[k]

\* The edges the command builds from the flags.
FlaggedEdges(options) ==
  {k \in {"top", "bottom", "left", "right"} : Flag(options, "all") \/ Flag(options, k)}

\* The Borders the command builds from its options, given the colour
\* parseColorInput returned (Undefined when options.color is not set): the
\* one borderStyle object under every flagged edge.
BuiltBorders(options, color) ==
  [k \in FlaggedEdges(options) |->
     IF color = Undefined
       THEN [style |-> IF Has(options, "style") /\ options.style # "" THEN options.style
                       ELSE "SOLID"]
       ELSE [style |-> IF Has(options, "style") /\ options.style # "" THEN options.style
                       ELSE "SOLID",
             color |-> [obj |-> color]]]

\* The borders of the command: the content of the --json file, or the
\* borders built from the flags; it throws what readFileSync or
\* parseColorInput throws.
BordersOf(options) ==
  IF Has(options, "json")
    THEN IF Has(options.json, "content") THEN Gave(options.json.content)
         ELSE Thrown(FileNotFound)
    ELSE IF Has(options, "color") /\ options.color # <<>>
      THEN Let(parseColorInput(options.color),
               LAMBDA p : IF p.threw THEN p ELSE Gave(BuiltBorders(options, p.value)))
      ELSE Gave(BuiltBorders(options, Undefined))

\* applyBorders of commands/format.ts: the error it logs is thrown on.
applyBordersCommand(env, remoteSheets, range, options) ==
  Let(getAuthenticatedSheets(env.credentials),
      LAMBDA c :
        IF c.threw THEN Threw(NewClient, c.value)
        ELSE Let(BordersOf(options),
                 LAMBDA b :
                   IF b.threw THEN Threw(c.value, b.value)
                   ELSE applyBorders(c.value, env, remoteSheets, range, b.value)))

----------------------------------------------------------------------------
(* The Apps Script client (ScriptClient) and the remote script project *)

\* The remote side of the script commands: the spreadsheet is not there
\* ("missing"), has no script attached ("bare") or has one ("scripted"),
\* whose files are [name, type, source] and, once parsed by the service, a
\* functionSet.
NoProject == [spreadsheet |-> "bare", files |-> <<>>]

\* The id of the script project of the spreadsheet.
ScriptId == "script-1"

Null == [null |-> TRUE]

\* drive.files.list with the query for the scripts under the spreadsheet: a
\* spreadsheet that is not there is answered 404.
DriveFilesList(st, env, remote) ==
  Let(IF remote.spreadsheet = "missing" THEN "404" ELSE env.list,
      LAMBDA result :
        IF result = "ok"
          THEN Returned(Sent(st, [method |-> "drive.files.list", result |-> result]),
                        [files |-> IF remote.spreadsheet = "scripted"
                                     THEN <<[id |-> ScriptId, name |-> "Bound script"]>>
                                     ELSE <<>>])
          ELSE Threw(Sent(st, [method |-> "drive.files.list", result |-> result]),
                     GoogleError(result)))

\* ScriptClient.getScriptForSpreadsheet: null when no script is listed or
\* the listing is answered 404.
getScriptForSpreadsheet(st, env, remote, spreadsheetId) ==
  Let(DriveFilesList(st, env, remote),
      LAMBDA r :
        IF r.threw
          THEN IF r.value.code = "404" THEN Returned(r.st, Null)
               ELSE Threw(r.st, handleGoogleAPIError(r.value))
          ELSE IF r.value.files = <<>> THEN Returned(r.st, Null)
               ELSE Returned(r.st, [scriptId |-> r.value.files[1].id,
                                    title |-> r.value.files[1].name,
                                    parentId |-> spreadsheetId]))

\* script.projects.create: refused with 404 under a parent that is not there.
ProjectsCreate(st, env, remote, title, parentId) ==
  Let(IF remote.spreadsheet = "missing" THEN "404" ELSE env.create,
      LAMBDA result :
        IF result = "ok"
          THEN Returned(Sent(st, [method |-> "script.projects.create", result |-> result,
                                  title |-> title, parentId |-> parentId]),
                        [scriptId |-> ScriptId, title |-> title, parentId |-> parentId])
          ELSE Threw(Sent(st, [method |-> "script.projects.create", result |-> result,
                               title |-> title, parentId |-> parentId]),
                     GoogleError(result)))

\* ScriptClient.createProject
createProject(st, env, remote, title, parentId) ==
  TryCatch(
    Awaited(ProjectsCreate(st, env, remote, title, parentId),
            LAMBDA r : Returned(r.st, [scriptId |-> r.value.scriptId, title |-> r.value.title,
                                       parentId |-> r.value.parentId])),
    handleGoogleAPIError)

\* script.projects.getContent: 404 for a script that is not there.
ProjectsGetContent(st, env, remote, scriptId) ==
  Let(IF remote.spreadsheet # "scripted" \/ scriptId # ScriptId THEN "404" ELSE env.getContent,
      LAMBDA result :
        IF result = "ok"
          THEN Returned(Sent(st, [method |-> "script.projects.getContent", result |-> result,
                                  files |-> remote.files]),
                        [files |-> remote.files])
          ELSE Threw(Sent(st, [method |-> "script.projects.getContent", result |-> result]),
                     GoogleError(result)))

\* One file as getContent returns it.
FetchedFile(file) ==
  IF Has(file, "functionSet")
    THEN [name |-> file.name, type |-> file.type, source |-> file.source,
          functionSet |-> file.functionSet]
    ELSE [name |-> file.name, type |-> file.type, source |-> file.source]

\* ScriptClient.getContent
getContent(st, env, remote, scriptId) ==
  TryCatch(
    Awaited(ProjectsGetContent(st, env, remote, scriptId),
            LAMBDA r : Returned(r.st, [i \in 1..Len(r.value.files) |->
                                         FetchedFile(r.value.files[i])])),
    handleGoogleAPIError)

\* script.projects.updateContent
ProjectsUpdateContent(st, env, scriptId, files) ==
  IF env.update = "ok"
    THEN Returned(Sent(st, [method |-> "script.projects.updateContent", result |-> env.update,
                            scriptId |-> scriptId, files |-> files]),
                  Undefined)
    ELSE Threw(Sent(st, [method |-> "script.projects.updateContent", result |-> env.update,
                         scriptId |-> scriptId, files |-> files]),
               GoogleError(env.update))

\* ScriptClient.updateContent
updateContent(st, env, scriptId, files) ==
  TryCatch(
    ProjectsUpdateContent(st, env, scriptId,
      [i \in 1..Len(files) |->
         [name |-> files[i].name, type |-> files[i].type, source |-> files[i].source]]),
    handleGoogleAPIError)

\* files.findIndex((f) => f.name === fileName), one-based; 0 for -1.
FindIndex(files, fileName) ==
  IF \E i \in 1..Len(files) : files[i].name = fileName
    THEN CHOOSE i \in 1..Len(files) :
           /\ files[i].name = fileName
           /\ \A j \in 1..(i - 1) : files[j].name # fileName
    ELSE 0

WrittenAlwaysAppending(files, fileName, source, type) ==
  Append(files, [name |-> fileName, type |-> type, source |-> source])

\* The list writeFile hands to updateContent.
Written(files, fileName, source, type) ==
  IF FindIndex(files, fileName) > 0
    THEN [files EXCEPT ![FindIndex(files, fileName)].source = source,
                       ![FindIndex(files, fileName)].type = type]
    ELSE Append(files, [name |-> fileName, type |-> type, source |-> source])

\* ScriptClient.writeFile
writeFile(st, env, remote, scriptId, fileName, source, type) ==
  TryCatch(
    Awaited(getContent(st, env, remote, scriptId),
            LAMBDA g : updateContent(g.st, env, scriptId,
                                     Written(g.value, fileName, source, type))),
    handleGoogleAPIError)

\* The remote side after one request that was answered: a created project
\* is attached and empty, an updated one holds the files sent.
ProjectAfterRequest(remote, request) ==
  IF request.result # "ok" THEN remote
  ELSE IF request.method = "script.projects.create"
    THEN [spreadsheet |-> "scripted", files |-> <<>>]
  ELSE IF request.method = "script.projects.updateContent"
    THEN [remote EXCEPT !.files = request.files]
  ELSE remote

\* The remote side after the requests of the log from the i-th on.
RECURSIVE ProjectAfter(_, _, _)
ProjectAfter(remote, log, i) ==
  IF i > Len(log) THEN remote
  ELSE ProjectAfter(ProjectAfterRequest(remote, log[i]), log, i + 1)

----------------------------------------------------------------------------
(* The script commands: deployScript (commands/script.ts) *)

\* The position of the last c in s, 0 when there is none.
LastIndexOf(s, c) ==
  IF \E i \in 1..Len(s) : s[i] = c
    THEN CHOOSE i \in 1..Len(s) : s[i] = c /\ \A j \in (i + 1)..Len(s) : s[j] # c
    ELSE 0

\* The part of a path after its last "/".
LastSegment(p) == SubSeq(p, LastIndexOf(p, "/") + 1, Len(p))

\* path.extname: from the last "." of the last segment on, empty when there
\* is none or when it is the first character.
Extname(p) ==
  IF LastIndexOf(LastSegment(p), ".") <= 1 THEN <<>>
  ELSE SubSeq(LastSegment(p), LastIndexOf(LastSegment(p), "."), Len(LastSegment(p)))

\* path.basename(p, path.extname(p))
Basename(p) == SubSeq(LastSegment(p), 1, Len(LastSegment(p)) - Len(Extname(p)))

GsExtension == << ".", "g", "s" >>

\* getAuthenticatedClients of commands/script.ts and getAuthenticatedScript
\* of commands/sheet.ts: the ScriptClient of the command, or the error of
\* the configuration.
getAuthenticatedClients(credentials) == getAuthenticatedSheets(credentials)

FileNotFoundInput(scriptFile) ==
  SheetFreakError("INVALID_INPUT", Msg("File not found: ${scriptFile}", <<scriptFile>>), Undefined)

ScriptNotFound ==
  SheetFreakError("SCRIPT_NOT_FOUND",
    Msg("No script attached to spreadsheet. Use --create-if-missing to create one", <<>>),
    Undefined)

\* The source read from the local script file.
LocalSource == [text |-> "local"]

\* The tail of deployScript once the script project is known.
DeployTo(st, env, remote, scriptInfo, scriptFile) ==
  writeFile(st, env, remote, scriptInfo.scriptId, Basename(scriptFile) \o GsExtension,
            LocalSource, "SERVER_JS")

deployScriptAlwaysCreating(env, remote, spreadsheetId, scriptFile, exists, options) ==
  Let(getAuthenticatedClients(env.credentials),
      LAMBDA c :
        IF c.threw THEN Threw(NewClient, c.value)
        ELSE IF ~exists THEN Threw(c.value, FileNotFoundInput(scriptFile))
        ELSE Awaited(getScriptForSpreadsheet(c.value, env, remote, spreadsheetId),
               LAMBDA s :
                 IF s.value = Null
                   THEN Awaited(createProject(s.st, env, remote,
                                  IF Has(options, "title") /\ options.title # <<>>
                                    THEN options.title ELSE Basename(scriptFile),
                                  spreadsheetId),
                          LAMBDA p : DeployTo(p.st, env, ProjectAfter(remote, p.st.requests, 1),
                                              p.value, scriptFile))
                   ELSE DeployTo(s.st, env, remote, s.value, scriptFile)))

\* deployScript: the error it logs is thrown on.
deployScript(env, remote, spreadsheetId, scriptFile, exists, options) ==
  Let(getAuthenticatedClients(env.credentials),
      LAMBDA c :
        IF c.threw THEN Threw(NewClient, c.value)
        ELSE IF ~exists THEN Threw(c.value, FileNotFoundInput(scriptFile))
        ELSE Awaited(getScriptForSpreadsheet(c.value, env, remote, spreadsheetId),
               LAMBDA s :
                 IF s.value = Null
                   THEN IF ~Flag(options, "createIfMissing") THEN Threw(s.st, ScriptNotFound)
                        ELSE Awaited(createProject(s.st, env, remote,
                                       IF Has(options, "title") /\ options.title # <<>>
                                         THEN options.title ELSE Basename(scriptFile),
                                       spreadsheetId),
                               LAMBDA p : DeployTo(p.st, env,
                                                   ProjectAfter(remote, p.st.requests, 1),
                                                   p.value, scriptFile))
                   ELSE DeployTo(s.st, env, remote, s.value, scriptFile)))

----------------------------------------------------------------------------
(* The template registry (templates/template-registry.ts) *)

TEMPLATES ==
  << [name |-> "auto-refresh", title |-> << "A", "u", "t", "o", "-", "R", "e", "f", "r", "e", "s", "h", " ", "D", "a", "t", "a" >>, file |-> "auto-refresh.gs",
      variables |-> << [name |-> "API_URL", required |-> TRUE],
                       [name |-> "TARGET_RANGE", default |-> "Data!A1", required |-> TRUE],
                       [name |-> "API_KEY", required |-> FALSE] >>],
     [name |-> "custom-menu", title |-> << "C", "u", "s", "t", "o", "m", " ", "M", "e", "n", "u" >>, file |-> "custom-menu.gs",
      variables |-> <<>>],
     [name |-> "on-edit-validator", title |-> << "D", "a", "t", "a", " ", "V", "a", "l", "i", "d", "a", "t", "o", "r" >>, file |-> "on-edit-validator.gs",
      variables |-> <<>>] >>

\* getTemplate
getTemplate(name) ==
  IF \E i \in 1..Len(TEMPLATES) : TEMPLATES[i].name = name
    THEN Gave(TEMPLATES[CHOOSE i \in 1..Len(TEMPLATES) :
                          /\ TEMPLATES[i].name = name
                          /\ \A j \in 1..(i - 1) : TEMPLATES[j].name # name])
    ELSE Thrown(SheetFreakError("TEMPLATE_NOT_FOUND",
           Msg("Template '${name}' not found. Available templates: ${names}", <<name>>),
           Undefined))

\* getTemplateSource: the text of the template's file, when the file is
\* installed next to the registry.
getTemplateSource(name, installed) ==
  Let(getTemplate(name),
      LAMBDA t :
        IF t.threw THEN t
        ELSE IF ~installed
          THEN Thrown(SheetFreakError("TEMPLATE_NOT_FOUND",
                 Msg("Template file not found: ${template.file}", <<t.value.file>>), Undefined))
          ELSE Gave([file |-> t.value.file]))

\* config[k] in a condition: there and not the empty string.
Truthy(config, k) == Has(config, k) /\ config[k] # ""

\* variable.required, variable.default in a condition
IsRequired(variable) == Has(variable, "required") /\ variable.required
HasDefault(variable) == Has(variable, "default") /\ variable.default # ""

\* The test of validateTemplateConfig for one variable.
Missing(variable, config) == IsRequired(variable) /\ ~Truthy(config, variable.name)

\* validateTemplateConfig
validateTemplateConfig(template, config) ==
  [valid |-> \A i \in 1..Len(template.variables) : ~Missing(template.variables[i], config),
   errors |-> [i \in 1..Cardinality({j \in 1..Len(template.variables) :
                                      Missing(template.variables[j], config)}) |->
                 template.variables[
                   CHOOSE j \in 1..Len(template.variables) :
                     /\ Missing(template.variables[j], config)
                     /\ Cardinality({k \in 1..j : Missing(template.variables[k], config)}) = i
                 ].name]]

\* The variables of the template that get their default.
Defaulted(template, config) ==
  {i \in 1..Len(template.variables) :
     ~Truthy(config, template.variables[i].name) /\ HasDefault(template.variables[i])}

\* fullConfig: the config with the defaults of the variables it leaves out.
FullConfig(template, config) ==
  [k \in DOMAIN config \cup {template.variables[i].name : i \in Defaulted(template, config)} |->
     IF \E i \in Defaulted(template, config) : template.variables[i].name = k
       THEN template.variables[CHOOSE i \in Defaulted(template, config) :
                                 template.variables[i].name = k].default
       ELSE config[k]]

\* applyTemplateVariables: the text of the file with the variables put in,
\* kept as the file and the variables.
applyTemplateVariables(source, variables) == [file |-> source.file, variables |-> variables]

\* getConfiguredTemplate
getConfiguredTemplate(name, config, installed) ==
  Let(getTemplate(name),
      LAMBDA t :
        IF t.threw THEN t
        ELSE Let(getTemplateSource(name, installed),
               LAMBDA src :
                 IF src.threw THEN src
                 ELSE IF ~validateTemplateConfig(t.value, config).valid
                   THEN Thrown(SheetFreakError("INVALID_TEMPLATE_CONFIG",
                          Msg("Template configuration errors:\n${errors}",
                              validateTemplateConfig(t.value, config).errors),
                          Undefined))
                   ELSE Gave(applyTemplateVariables(src.value,
                                                    FullConfig(t.value, config)))))

----------------------------------------------------------------------------
(* applyTemplate (commands/sheet.ts) *)

ConfigNotFound(file) ==
  SheetFreakError("INVALID_INPUT", Msg("Config file not found: ${options.config}", <<file.path>>),
                  Undefined)

\* The error of JSON.parse on a text that is not JSON.
JsonSyntaxError ==
  [name |-> "SyntaxError", code |-> "undefined", message |-> Msg("Unexpected token", <<>>),
   details |-> Undefined]

\* The config of the command: empty without --config, else the content of
\* the file; it throws when the file is not there or is not JSON.
LoadConfig(options) ==
  IF ~Has(options, "config") THEN Gave([k \in {} |-> ""])
  ELSE IF ~options.config.exists THEN Thrown(ConfigNotFound(options.config))
  ELSE IF ~Has(options.config, "config") THEN Thrown(JsonSyntaxError)
  ELSE Gave(options.config.config)

CodeGs == << "C", "o", "d", "e", ".", "g", "s" >>

\* The tail of applyTemplate once the source is configured.
ApplyTo(st, env, remote, spreadsheetId, template, source) ==
  Awaited(getScriptForSpreadsheet(st, env, remote, spreadsheetId),
    LAMBDA s :
      IF s.value = Null
        THEN Awaited(createProject(s.st, env, remote, template.title, spreadsheetId),
               LAMBDA p : writeFile(p.st, env, ProjectAfter(remote, p.st.requests, 1),
                                    p.value.scriptId, CodeGs, source, "SERVER_JS"))
        ELSE writeFile(s.st, env, remote, s.value.scriptId, CodeGs, source, "SERVER_JS"))

\* What applyTemplate does before it turns to the script project: the
\* template, the config and the configured source.
Validated(templateName, options, installed) ==
  Let(getTemplate(templateName),
      LAMBDA t :
        IF t.threw THEN t
        ELSE Let(LoadConfig(options),
               LAMBDA cfg :
                 IF cfg.threw THEN cfg
                 ELSE Let(getConfiguredTemplate(templateName, cfg.value, installed),
                        LAMBDA src :
                          IF src.threw THEN src
                          ELSE Gave([template |-> t.value, source |-> src.value]))))

applyTemplateListingFirst(env, remote, spreadsheetId, templateName, options) ==
  Let(getAuthenticatedClients(env.credentials),
      LAMBDA c :
        IF c.threw THEN Threw(NewClient, c.value)
        ELSE Awaited(getScriptForSpreadsheet(c.value, env, remote, spreadsheetId),
               LAMBDA s :
                 Let(Validated(templateName, options, env.installed),
                     LAMBDA v :
                       IF v.threw THEN Threw(s.st, v.value)
                       ELSE ApplyTo(c.value, env, remote, spreadsheetId,
                                    v.value.template, v.value.source))))

\* applyTemplate: the error it logs is thrown on.
applyTemplate(env, remote, spreadsheetId, templateName, options) ==
  Let(getAuthenticatedClients(env.credentials),
      LAMBDA c :
        IF c.threw THEN Threw(NewClient, c.value)
        ELSE Let(Validated(templateName, options, env.installed),
               LAMBDA v :
                 IF v.threw THEN Threw(c.value, v.value)
                 ELSE ApplyTo(c.value, env, remote, spreadsheetId,
                              v.value.template, v.value.source)))

----------------------------------------------------------------------------
(* Inputs *)

\* Column names are generated up to this zero-based index (701 is ZZ).
MaxColumnIndex == 701

\* Lengths of the column tokens, largest row number and length of the
\* arbitrary short strings among the range inputs.
MaxColLen == 2
MaxRow == 3
MaxShortLen == 4

\* The name of the column with zero-based index i: A .. Z, AA .. ZZ, AAA ...
RECURSIVE ColumnName(_)
ColumnName(i) ==
  IF i < 26 THEN <<Upper[i + 1]>>
  ELSE ColumnName((i \div 26) - 1) \o <<Upper[(i % 26) + 1]>>

\* The decimal text of a natural number.
RECURSIVE Decimal(_)
Decimal(n) ==
  IF n < 10 THEN <<Digits[n + 1]>> ELSE Decimal(n \div 10) \o <<Digits[(n % 10) + 1]>>

\* All strings over alphabet of length 1 .. n.
RECURSIVE StringsUpTo(_, _)
StringsUpTo(alphabet, n) ==
  IF n = 0 THEN {}
  ELSE LET shorter == StringsUpTo(alphabet, n - 1)
       IN  {<<c>> : c \in alphabet} \cup shorter
             \cup {w \o <<c>> : w \in shorter, c \in alphabet}

ColTokens == StringsUpTo({"A", "Z"}, MaxColLen)

RowTokens ==
  {Decimal(n) : n \in 0..MaxRow} \cup {<< "1", "0" >>, << "1", "2" >>, << "0", "0", "7" >>}

\* Every well-formed cell range over the column and row tokens.
Cells ==
  {c1 \o r1 \o <<":">> \o c2 \o r2 :
     c1 \in ColTokens, r1 \in RowTokens, c2 \in ColTokens, r2 \in RowTokens}

\* Arbitrary short strings over the characters the grammar turns on.
ShortStrings == {<<>>} \cup StringsUpTo({"A", "1", ":", "!", "a", "-"}, MaxShortLen)

A1B2 == << "A", "1", ":", "B", "2" >>
C3D4 == << "C", "3", ":", "D", "4" >>
A1A1 == << "A", "1", ":", "A", "1" >>
B2A1 == << "B", "2", ":", "A", "1" >>
A0B1 == << "A", "0", ":", "B", "1" >>

\* A few cell ranges, well-formed and not, to follow a sheet title.
SmallCells ==
  {A1B2, C3D4, A1A1, B2A1, A0B1, << "A", "1", ":", "B", "2", " " >>, << " ", "A", "1", ":", "B", "2" >>, << "A", "1", ":", "B", "2", ":", "C", "3" >>, << "A", "B", "1", "2", ":", "Z", "Z", "3", "4" >>, << "A", "1" >>, << "A", ":", "A" >>, << "a", "1", ":", "b", "2" >>, << "A", "1", "-", "B", "2" >>}

TSheet1 == << "S", "h", "e", "e", "t", "1" >>
TSheet9 == << "S", "h", "e", "e", "t", "9" >>
TMySheet == << "M", "y", " ", "S", "h", "e", "e", "t" >>
TNoSheet == << "N", "o", "p", "e" >>
Quoted(title) == <<"'">> \o title \o <<"'">>

\* What may stand before the first "!".
TitleTexts ==
  {<<>>, TSheet1, TSheet9, TMySheet, TNoSheet, <<"A">>,
   Quoted(TSheet1), Quoted(TMySheet)}

\* What may follow the cell range.
Suffixes == {<<>>, <<"!">>, <<"!", "X">>}

Qualified ==
  {t \o <<"!">> \o c \o x : t \in TitleTexts, c \in SmallCells, x \in Suffixes}

\* The range strings the resolver is run on.
RangeInputs == Cells \cup ShortStrings \cup SmallCells \cup Qualified

\* The spreadsheets: each a list of sheets with distinct ids and titles.
SheetLists ==
  { << [sheetId |-> 0, title |-> TSheet1] >>,
    << [sheetId |-> 0, title |-> TSheet1], [sheetId |-> 7, title |-> TMySheet] >>,
    << [sheetId |-> 7, title |-> TMySheet], [sheetId |-> 5, title |-> TSheet9],
       [sheetId |-> 3, title |-> <<"A">>] >> }
\* The range strings formatCells and applyBorders are called with.
ClientRanges ==
  SmallCells
    \cup {t \o <<"!">> \o c : t \in TitleTexts, c \in {A1B2, << "A", "1", "-", "B", "2" >>}}
    \cup {TSheet1 \o <<"!">> \o A1B2 \o <<"!", "X">>, Quoted(TMySheet) \o <<"!">> \o C3D4}

EmptyObject == [k \in {} |-> Undefined]

White == [obj |-> [red |-> Ratio(1, 1), green |-> Ratio(1, 1), blue |-> Ratio(1, 1),
                   alpha |-> Ratio(1, 1)]]
HexBlue == [str |-> << "#", "4", "2", "8", "5", "F", "4" >>]

\* The CellFormat arguments.
Formats ==
  { EmptyObject,
    [textFormat |-> [bold |-> TRUE]],
    [textFormat |-> EmptyObject],
    [backgroundColor |-> HexBlue,
     textFormat |-> [bold |-> FALSE, fontSize |-> 0, fontFamily |-> "",
                     foregroundColor |-> White],
     horizontalAlignment |-> "CENTER"],
    [backgroundColor |-> White,
     textFormat |-> [italic |-> TRUE, fontSize |-> 11, fontFamily |-> "Arial"],
     verticalAlignment |-> "MIDDLE", wrapStrategy |-> "WRAP",
     numberFormat |-> [type |-> "NUMBER", pattern |-> "0.00"]] }

\* The Borders arguments.
BorderSpecs ==
  { EmptyObject,
    [top |-> [style |-> "SOLID"]],
    [top |-> EmptyObject, bottom |-> [style |-> "DOUBLE", color |-> HexBlue]],
    [top |-> [style |-> "SOLID_MEDIUM", color |-> White],
     bottom |-> [style |-> "SOLID_MEDIUM", color |-> White],
     left |-> [style |-> "SOLID_MEDIUM", color |-> White],
     right |-> [style |-> "SOLID_MEDIUM", color |-> White]] }

\* Largest column or row number given to the resize operations.
MaxIndex == 2

\* The titles deleteSheet, renameSheet and the resize operations are given,
\* and the new titles of renameSheet.
SheetTitles == {TSheet1, TMySheet, TNoSheet}
NewTitles == {TSheet9}

\* The pixel sizes.
PixelSizes == {150}

\* The errors handleGoogleAPIError is given: what a request to Google throws
\* (the code an HTTP status, missing, or the name of a network failure) and
\* the SheetFreakErrors thrown inside the try blocks that call it.
ErrorCodes ==
  { "400", "401", "403", "404", "429", "500", "503", "undefined", "ENOTFOUND", "ECONNRESET",
    "NOT_FOUND", "INVALID_INPUT", "API_ERROR", "AUTHENTICATION_ERROR", "QUOTA_EXCEEDED" }

ErrorValues ==
  [name : {"GaxiosError", "Error", "SheetFreakError"},
   code : ErrorCodes,
   message : {Msg("", <<>>), Msg("google api error", <<>>), Msg("Request failed", <<>>)},
   details : {Undefined}]

\* Longest file list of the remote script project before an operation.
MaxFiles == 2

PageName == << "P", "a", "g", "e" >>
UtilGs == << "u", "t", "i", "l", ".", "g", "s" >>

\* The files a remote project can hold before an operation; the service
\* keeps the names of a project's files distinct.
RemoteFiles ==
  { [name |-> CodeGs, type |-> "SERVER_JS", source |-> [text |-> "old"],
     functionSet |-> [values |-> <<[name |-> "main"]>>]],
    [name |-> PageName, type |-> "HTML", source |-> [text |-> "old"]],
    [name |-> UtilGs, type |-> "SERVER_JS", source |-> [text |-> "old"]] }

DistinctNames(files) ==
  \A i, j \in 1..Len(files) : files[i].name = files[j].name => i = j

FileLists ==
  {files \in UNION {[1..n -> RemoteFiles] : n \in 0..MaxFiles} : DistinctNames(files)}

Projects ==
  {[spreadsheet |-> "missing", files |-> <<>>], [spreadsheet |-> "bare", files |-> <<>>]}
    \cup {[spreadsheet |-> "scripted", files |-> files] : files \in FileLists}

\* What the remote side and the disk answer during one script command.
ScriptEnvs ==
  [credentials : {"ok", "unset"}, list : {"ok", "403"}, create : {"ok", "500"},
   getContent : {"ok", "500"}, update : {"ok", "500"}, installed : BOOLEAN]

SpreadsheetId == "sheet-1"

\* The local script files given to deployScript.
ScriptFiles == {<< "C", "o", "d", "e", ".", "j", "s" >>, << "l", "i", "b", "/", "u", "t", "i", "l", ".", "g", "s" >>, << "P", "a", "g", "e" >>}

DeployOptions ==
  { [k \in {} |-> TRUE], [createIfMissing |-> TRUE], [title |-> << "M", "y", " ", "s", "c", "r", "i", "p", "t" >>],
    [title |-> << "M", "y", " ", "s", "c", "r", "i", "p", "t" >>, createIfMissing |-> TRUE] }

\* The names given to getTemplate, and the configs: each variable left out,
\* empty or set.
TemplateNames == {"auto-refresh", "custom-menu", "on-edit-validator", "no-such-template"}

ConfigValues == {"", "set"}

Configs ==
  UNION {[keys -> ConfigValues] : keys \in SUBSET {"API_URL", "TARGET_RANGE", "API_KEY"}}

ConfigPath == << "c", "o", "n", "f", "i", "g", ".", "j", "s", "o", "n" >>

\* The --config files: not there, not JSON, or holding a config.
ConfigFiles ==
  {[path |-> ConfigPath, exists |-> FALSE], [path |-> ConfigPath, exists |-> TRUE]}
    \cup {[path |-> ConfigPath, exists |-> TRUE, config |-> c] : c \in Configs}

TemplateOptions == {[k \in {} |-> TRUE]} \cup {[config |-> f] : f \in ConfigFiles}

\* The arguments of writeFile.
WrittenNames == {CodeGs, PageName, << "N", "e", "w" >>}
WrittenSources == {[text |-> "new"]}
FileTypes == {"SERVER_JS", "HTML"}
ScriptIds == {ScriptId, "script-2"}

\* The --color values of the borders command.
BorderColors ==
  { << "b", "l", "a", "c", "k" >>, << "R", "E", "D" >>,
    << "#", "4", "2", "8", "5", "F", "4" >>,
    << "n", "o", "t", "a", "c", "o", "l", "o", "r" >>, << "#", "1", "2" >> }

\* The options of the borders command: each flag given or not, --style and
\* --color given or not, or a --json file (there or not).
BorderFlagSets == SUBSET {"all", "top", "bottom", "left", "right"}

BorderOptions ==
  {[k \in flags |-> TRUE] : flags \in BorderFlagSets}
    \cup {[k \in flags \cup {"style"} |-> IF k = "style" THEN "DOUBLE" ELSE TRUE] :
            flags \in BorderFlagSets}
    \cup {[k \in flags \cup {"color"} |-> IF k = "color" THEN c ELSE TRUE] :
            flags \in BorderFlagSets, c \in BorderColors}
    \cup {[k \in {"top", "style", "color"} |->
             CASE k = "style" -> "SOLID" [] k = "color" -> c [] OTHER -> TRUE] :
            c \in BorderColors}
    \cup {[json |-> [content |-> b]] : b \in BorderSpecs}
    \cup {[json |-> [missing |-> TRUE]]}

CommandRanges == {A1B2, TSheet1 \o <<"!">> \o A1B2, << "A", "1", "-", "B", "2" >>}

CommandEnvs ==
  [auth : AuthResults, get : {"ok", "404"}, update : {"ok", "500"},
   credentials : CredentialStates]

\* Length of the arbitrary short strings among the colour tokens.
MaxTokenLen == 3

\* Two-digit hex channels over a few digits of each kind.
HexPairs == {<<a, b>> : a, b \in {"0", "9", "a", "F"}}

\* Six-digit hex tokens, with and without the leading "#".
HexTokens ==
  LET six == {r \o g \o b : r, g, b \in HexPairs}
              \cup {<< "4", "2", "8", "5", "f", "4" >>, << "4", "2", "8", "5", "F", "4" >>}
  IN  six \cup {<<"#">> \o h : h \in six}

\* String.prototype.toUpperCase, for writing a name in capitals.
Capitals(s) ==
  [i \in 1..Len(s) |->
     IF \E k \in 1..Len(Lower) : Lower[k] = s[i]
       THEN Upper[CHOOSE k \in 1..Len(Lower) : Lower[k] = s[i]] ELSE s[i]]

\* The twelve names in lower case, in capitals and capitalised.
NameTokens ==
  UNION {{namedColors[i].name, Capitals(namedColors[i].name),
          Capitals(Sub(namedColors[i].name, 1, 1)) \o Tail(namedColors[i].name)} :
         i \in 1..Len(namedColors)}

\* Tokens that are neither: words, hex digits of the wrong number or kind,
\* names with something around them, property names of every object.
OtherTokens ==
  { <<>>, << "n", "o", "t", "a", "c", "o", "l", "o", "r" >>,
    << "#", "1", "2" >>, << "#", "G", "G", "G", "G", "G", "G" >>,
    << "#", "1", "2", "3", "4", "5", "6", "7" >>, << "1", "2", "3", "4", "5" >>,
    << "1", "2", "3", "4", "5", "6", "7" >>, << "G", "G", "G", "G", "G", "G" >>,
    << "#", "o", "r", "a", "n", "g", "e" >>, << "o", "r", "a", "n", "g", "e", " " >>,
    << "1", "2", "#", "3", "4", "5", "6" >>, << "#", "#", "1", "2", "3", "4", "5", "6" >>,
    << "0", "x", "1", "2", "3", "4" >>, << "-", "1", "2", "3", "4", "5" >>,
    StrConstructor, Capitals(StrConstructor), StrProto }
    \cup StringsUpTo({"#", "1", "G", "f"}, MaxTokenLen)

ColorTokens == HexTokens \cup NameTokens \cup OtherTokens

----------------------------------------------------------------------------
(* The state machines *)

Pending == [status |-> "pending"]

\* The outcome of a finished method.
Completed(r) == [status |-> IF r.threw THEN "threw" ELSE "returned", value |-> r.value]

\* The client before the operation: its flag, and no request issued yet.
Client == [initialized |-> initialized, requests |-> <<>>]

(* columnToIndex on every column name up to MaxColumnIndex *)

InitColumn ==
  /\ initialized = FALSE
  /\ sheets = <<>>
  /\ project = NoProject
  /\ requests = <<>>
  /\ outcome = Pending
  /\ \E i \in 0..MaxColumnIndex :
       call = [op |-> "columnToIndex", col |-> ColumnName(i), from |-> i]

ConvertColumn ==
  /\ call.op = "columnToIndex"
  /\ outcome = Pending
  /\ outcome' = [status |-> "returned", value |-> columnToIndex(call.col)]
  /\ UNCHANGED <<initialized, sheets, project, call, requests>>

NextColumn == ConvertColumn

SpecColumn == InitColumn /\ [][NextColumn]_vars

(* rangeToGridRange on every range input.  The method is private: it runs   *)
(* inside formatCells and applyBorders after ensureAuthorized has returned, *)
(* so the client is initialized, and it issues no batchUpdate, so only the  *)
(* answer to spreadsheets.get varies.                                       *)

ResolverEnvs == {env \in Envs : env.auth = "ok" /\ env.update = "ok"}

InitRange ==
  /\ initialized = TRUE
  /\ sheets \in SheetLists
  /\ project = NoProject
  /\ requests = <<>>
  /\ outcome = Pending
  /\ \E range \in RangeInputs : call = [op |-> "rangeToGridRange", range |-> range]

ResolveRange ==
  /\ call.op = "rangeToGridRange"
  /\ outcome = Pending
  /\ \E env \in ResolverEnvs :
       \E r \in {rangeToGridRange(Client, env, sheets, call.range)} :
           /\ outcome' = Completed(r)
           /\ initialized' = r.st.initialized
           /\ requests' = r.st.requests
  /\ UNCHANGED <<sheets, project, call>>

NextRange == ResolveRange

SpecRange == InitRange /\ [][NextRange]_vars

(* handleGoogleAPIError on every error value *)

InitErrors ==
  /\ initialized = FALSE
  /\ sheets = <<>>
  /\ project = NoProject
  /\ requests = <<>>
  /\ outcome = Pending
  /\ \E error \in ErrorValues : call = [op |-> "handleGoogleAPIError", error |-> error]

HandleGoogleAPIError ==
  /\ call.op = "handleGoogleAPIError"
  /\ outcome = Pending
  /\ outcome' = Completed(Thrown(handleGoogleAPIError(call.error)))
  /\ UNCHANGED <<initialized, sheets, project, call, requests>>

NextErrors == HandleGoogleAPIError

SpecErrors == InitErrors /\ [][NextErrors]_vars

(* parseColorInput on every colour token *)

InitColor ==
  /\ initialized = FALSE
  /\ sheets = <<>>
  /\ project = NoProject
  /\ requests = <<>>
  /\ outcome = Pending
  /\ \E token \in ColorTokens : call = [op |-> "parseColorInput", colorInput |-> token]

ParseColorInput ==
  /\ call.op = "parseColorInput"
  /\ outcome = Pending
  /\ outcome' = Completed(parseColorInput(call.colorInput))
  /\ UNCHANGED <<initialized, sheets, project, call, requests>>

NextColor == ParseColorInput

SpecColor == InitColor /\ [][NextColor]_vars

(* The client: operations called one after the other, each awaited *)

Init ==
  /\ initialized = FALSE
  /\ sheets \in SheetLists
  /\ project = NoProject
  /\ call = [op |-> "none"]
  /\ outcome = Pending
  /\ requests = <<>>

\* No operation is running: the one before, if any, has been awaited.
Idle == call.op = "none"

FormatCells ==
  /\ Idle
  /\ \E range \in ClientRanges, format \in Formats, env \in Envs :
       \E r \in {formatCells(Client, env, sheets, range, format)} :
         /\ call' = [op |-> "formatCells", range |-> range, format |-> format]
         /\ outcome' = Completed(r)
         /\ initialized' = r.st.initialized
         /\ requests' = r.st.requests
  /\ UNCHANGED <<sheets, project>>

ApplyBorders ==
  /\ Idle
  /\ \E range \in ClientRanges, borders \in BorderSpecs, env \in Envs :
       \E r \in {applyBorders(Client, env, sheets, range, borders)} :
         /\ call' = [op |-> "applyBorders", range |-> range, borders |-> borders]
         /\ outcome' = Completed(r)
         /\ initialized' = r.st.initialized
         /\ requests' = r.st.requests
  /\ UNCHANGED <<sheets, project>>

\* The caller has awaited the operation and goes on to the next one; the
\* client keeps its initialized flag.
Await ==
  /\ ~Idle
  /\ call' = [op |-> "none"]
  /\ outcome' = Pending
  /\ requests' = <<>>
  /\ UNCHANGED <<initialized, sheets, project>>

Next == FormatCells \/ ApplyBorders \/ Await

Spec == Init /\ [][Next]_vars

(* The format borders command, run once on every choice of options *)

InitBorders ==
  /\ initialized = FALSE
  /\ sheets \in SheetLists
  /\ project = NoProject
  /\ requests = <<>>
  /\ outcome = Pending
  /\ \E range \in CommandRanges, options \in BorderOptions :
       call = [op |-> "format borders", range |-> range, options |-> options]

BordersCommand ==
  /\ call.op = "format borders"
  /\ outcome = Pending
  /\ \E env \in CommandEnvs :
       \E r \in {applyBordersCommand(env, sheets, call.range, call.options)} :
         /\ outcome' = Completed(r)
         /\ initialized' = r.st.initialized
         /\ requests' = r.st.requests
  /\ UNCHANGED <<sheets, project, call>>

NextBorders == BordersCommand

SpecBorders == InitBorders /\ [][NextBorders]_vars

(* The client's operations on sheets by title, called one after the other *)

\* A spreadsheet keeps at least one sheet, and its titles are distinct: the
\* remote side refuses a request that would break either.
ValidSheets(list) ==
  /\ Len(list) >= 1
  /\ \A i, j \in 1..Len(list) : list[i].title = list[j].title => i = j

\* The operation c has run to its result r.
Settled(c, r) ==
  /\ call' = c
  /\ outcome' = Completed(r)
  /\ initialized' = r.st.initialized
  /\ requests' = r.st.requests
  /\ sheets' = SheetsAfter(sheets, r.st.requests, 1)
  /\ ValidSheets(sheets')
  /\ UNCHANGED project

ListSheets ==
  /\ Idle
  /\ \E env \in Envs :
       \E r \in {listSheets(Client, env, sheets)} :
         Settled([op |-> "listSheets"], r)

DeleteSheet ==
  /\ Idle
  /\ \E title \in SheetTitles, env \in Envs :
       \E r \in {deleteSheet(Client, env, sheets, title)} :
         Settled([op |-> "deleteSheet", title |-> title], r)

RenameSheet ==
  /\ Idle
  /\ \E oldTitle \in SheetTitles, newTitle \in NewTitles, env \in Envs :
       \E r \in {renameSheet(Client, env, sheets, oldTitle, newTitle)} :
         Settled([op |-> "renameSheet", title |-> oldTitle, newTitle |-> newTitle], r)

ResizeColumns ==
  /\ Idle
  /\ \E title \in SheetTitles, s, e \in 0..MaxIndex, px \in PixelSizes, env \in Envs :
       \E r \in {resizeColumns(Client, env, sheets, title, s, e, px)} :
         Settled([op |-> "resizeColumns", title |-> title, start |-> s, end |-> e,
                  pixelSize |-> px], r)

ResizeRows ==
  /\ Idle
  /\ \E title \in SheetTitles, s, e \in 0..MaxIndex, px \in PixelSizes, env \in Envs :
       \E r \in {resizeRows(Client, env, sheets, title, s, e, px)} :
         Settled([op |-> "resizeRows", title |-> title, start |-> s, end |-> e,
                  pixelSize |-> px], r)

AutoResizeColumns ==
  /\ Idle
  /\ \E title \in SheetTitles, s, e \in 0..MaxIndex, env \in Envs :
       \E r \in {autoResizeColumns(Client, env, sheets, title, s, e)} :
         Settled([op |-> "autoResizeColumns", title |-> title, start |-> s, end |-> e], r)

NextSheets ==
  \/ ListSheets
  \/ DeleteSheet
  \/ RenameSheet
  \/ ResizeColumns
  \/ ResizeRows
  \/ AutoResizeColumns
  \/ Await

SpecSheets == Init /\ [][NextSheets]_vars

(* The script commands, each run once on every remote project *)

InitScripts ==
  /\ initialized = FALSE
  /\ sheets = <<>>
  /\ project \in Projects
  /\ call = [op |-> "none"]
  /\ outcome = Pending
  /\ requests = <<>>

\* The operation c has run to its result r on the remote project.
ScriptSettled(c, r) ==
  /\ call' = c
  /\ outcome' = Completed(r)
  /\ initialized' = r.st.initialized
  /\ requests' = r.st.requests
  /\ project' = ProjectAfter(project, r.st.requests, 1)
  /\ UNCHANGED sheets

DeployScript ==
  /\ Idle
  /\ \E scriptFile \in ScriptFiles, exists \in BOOLEAN, options \in DeployOptions,
        env \in ScriptEnvs :
       \E r \in {deployScript(env, project, SpreadsheetId, scriptFile, exists, options)} :
         ScriptSettled([op |-> "deployScript", scriptFile |-> scriptFile, exists |-> exists,
                        options |-> options, credentials |-> env.credentials], r)

ApplyTemplate ==
  /\ Idle
  /\ \E templateName \in TemplateNames, options \in TemplateOptions, env \in ScriptEnvs :
       \E r \in {applyTemplate(env, project, SpreadsheetId, templateName, options)} :
         ScriptSettled([op |-> "applyTemplate", templateName |-> templateName,
                        options |-> options, credentials |-> env.credentials,
                        installed |-> env.installed], r)

WriteFile ==
  /\ Idle
  /\ \E scriptId \in ScriptIds, fileName \in WrittenNames, source \in WrittenSources,
        type \in FileTypes, env \in ScriptEnvs :
       \E r \in {writeFile(NewClient, env, project, scriptId, fileName, source, type)} :
         ScriptSettled([op |-> "writeFile", scriptId |-> scriptId, fileName |-> fileName,
                        source |-> source, type |-> type], r)

GetConfiguredTemplate ==
  /\ Idle
  /\ \E name \in TemplateNames, config \in Configs, installed \in BOOLEAN :
       /\ call' = [op |-> "getConfiguredTemplate", name |-> name, config |-> config,
                   installed |-> installed]
       /\ outcome' = Completed(getConfiguredTemplate(name, config, installed))
  /\ UNCHANGED <<initialized, sheets, project, requests>>

NextScripts == DeployScript \/ ApplyTemplate \/ WriteFile \/ GetConfiguredTemplate

SpecScripts == InitScripts /\ [][NextScripts]_vars
----------------------------------------------------------------------------
(* The range grammar, stated without the resolver's scanner *)

IsLetter(c) == \E i \in 1..Len(Upper) : Upper[i] = c
IsNumeral(c) == \E i \in 1..Len(Digits) : Digits[i] = c
LetterRank(c) == (CHOOSE i \in 1..Len(Upper) : Upper[i] = c) - 1
NumeralValue(c) == (CHOOSE i \in 1..Len(Digits) : Digits[i] = c) - 1

\* The positions at which w is one or more letters followed by one or more
\* numerals: the length of the letters.
CellCuts(w) ==
  {k \in 1..(Len(w) - 1) :
     /\ \A x \in 1..k : IsLetter(w[x])
     /\ \A x \in (k + 1)..Len(w) : IsNumeral(w[x])}

\* The positions of the colons of w that separate two cell tokens.
RangeCuts(w) ==
  {m \in 2..(Len(w) - 1) :
     /\ w[m] = ":"
     /\ CellCuts(Sub(w, 1, m - 1)) # {}
     /\ CellCuts(Sub(w, m + 1, Len(w))) # {}}

\* w is C1 R1 ":" C2 R2.
WellFormed(w) == RangeCuts(w) # {}

\* The four tokens of a well-formed w.
TokensOf(w) ==
  LET m == CHOOSE m \in RangeCuts(w) : TRUE
      left == Sub(w, 1, m - 1)
      right == Sub(w, m + 1, Len(w))
      k1 == CHOOSE k \in CellCuts(left) : TRUE
      k2 == CHOOSE k \in CellCuts(right) : TRUE
  IN  [c1 |-> Sub(left, 1, k1), r1 |-> Sub(left, k1 + 1, Len(left)),
       c2 |-> Sub(right, 1, k2), r2 |-> Sub(right, k2 + 1, Len(right))]

RECURSIVE Power(_, _)
Power(b, e) == IF e = 0 THEN 1 ELSE b * Power(b, e - 1)

\* The number a row token denotes, digit by digit with its place value.
RECURSIVE PlaceSum(_, _)
PlaceSum(d, i) ==
  IF i > Len(d) THEN 0
  ELSE NumeralValue(d[i]) * Power(10, Len(d) - i) + PlaceSum(d, i + 1)

RowNumber(d) == PlaceSum(d, 1)

\* The zero-based position of a column name in the order A, ..., Z, AA, ...:
\* the number of shorter names plus its rank among the names of its length.
RECURSIVE ShorterNames(_)
ShorterNames(n) == IF n <= 1 THEN 0 ELSE Power(26, n - 1) + ShorterNames(n - 1)

RECURSIVE RankAmong(_, _)
RankAmong(c, i) ==
  IF i > Len(c) THEN 0
  ELSE LetterRank(c[i]) * Power(26, Len(c) - i) + RankAmong(c, i + 1)

ColumnPosition(c) == ShorterNames(Len(c)) + RankAmong(c, 1)

\* The positions of "!" in the input.
Bangs(range) == {i \in 1..Len(range) : range[i] = "!"}
FirstBang(range) == CHOOSE i \in Bangs(range) : \A j \in Bangs(range) : i <= j

\* The text before the first "!" and the text after it (the whole input when
\* it holds no "!").
TitleText(range) == Sub(range, 1, FirstBang(range) - 1)
CellText(range) ==
  IF Bangs(range) = {} THEN range ELSE Sub(range, FirstBang(range) + 1, Len(range))

TitlesOf(list) == {list[i].title : i \in 1..Len(list)}

\* The resolver has run and this is what it gave.
Resolved == call.op = "rangeToGridRange" /\ outcome.status # "pending"
ResolvedOk == Resolved /\ outcome.status = "returned"
ResolveThrew(code) == Resolved /\ outcome.status = "threw" /\ outcome.value.code = code

\* The requests of the operation with this method.
RequestsOf(method) == {i \in 1..Len(requests) : requests[i].method = method}

----------------------------------------------------------------------------
(* C2 *)

\* C2: columnToIndex applied to the name of column i gives i, for every i in
\* 0..MaxColumnIndex (A -> 0, Z -> 25, AA -> 26, ZZ -> 701).
C2_ColumnRoundTrip ==
  (call.op = "columnToIndex" /\ outcome.status = "returned")
    => outcome.value = call.from

C2_Witness ==
  /\ call.op = "columnToIndex"
  /\ outcome.status = "returned"
  /\ call.col = <<"Z", "Z">>
  /\ call.from = 701
  /\ outcome.value = 701

----------------------------------------------------------------------------
(* C1 *)

\* C1: when the text after the sheet qualifier is C1 R1 ":" C2 R2, a range
\* the resolver returns has startRowIndex = R1 - 1, endRowIndex = R2,
\* startColumnIndex = position(C1) and endColumnIndex = position(C2) + 1,
\* and an unqualified input of that form always returns.
C1_ZeroBasedExclusive ==
  (Resolved /\ WellFormed(CellText(call.range)))
    => LET t == TokensOf(CellText(call.range))
       IN  /\ Bangs(call.range) = {} => outcome.status = "returned"
           /\ outcome.status = "returned" =>
                /\ outcome.value.startRowIndex = RowNumber(t.r1) - 1
                /\ outcome.value.endRowIndex = RowNumber(t.r2)
                /\ outcome.value.startColumnIndex = ColumnPosition(t.c1)
                /\ outcome.value.endColumnIndex = ColumnPosition(t.c2) + 1

C1_Witness ==
  /\ ResolvedOk
  /\ call.range = A1B2
  /\ outcome.value.startColumnIndex = 0
  /\ outcome.value.endColumnIndex = 2
  /\ outcome.value.startRowIndex = 0
  /\ outcome.value.endRowIndex = 2
----------------------------------------------------------------------------
(* What the resolver must do with an input *)

\* The cell range the resolver matches: the text between the first "!" and
\* the next one (or the end), the whole input when it holds no "!".
CellRangeTaken(range) ==
  IF Bangs(range) = {} THEN range
  ELSE LET rest == CellText(range)
       IN  IF Bangs(rest) = {} THEN rest ELSE Sub(rest, 1, FirstBang(rest) - 1)

Qualifier(range) == IF Bangs(range) = {} THEN <<>> ELSE TitleText(range)

\* No request of the operation failed.
AllAnswered == \A i \in 1..Len(requests) : requests[i].result = "ok"

\* The sheet id of a title of the spreadsheet.
IdOfTitle(title) ==
  sheets[CHOOSE i \in 1..Len(sheets) : sheets[i].title = title].sheetId

----------------------------------------------------------------------------
(* C3 *)

\* C3: a sheet title wrapped in single quotes is looked up without the
\* quotes: 'T'!<well-formed range>, with T a sheet of the spreadsheet and the
\* lookup answered, resolves to the id of T.
C3_QuotedTitleStripped ==
  (/\ Resolved
   /\ Bangs(call.range) # {}
   /\ \E t \in TitlesOf(sheets) : TitleText(call.range) = Quoted(t)
   /\ WellFormed(CellText(call.range))
   /\ AllAnswered)
    => /\ outcome.status = "returned"
       /\ \A t \in TitlesOf(sheets) :
            TitleText(call.range) = Quoted(t) => outcome.value.sheetId = IdOfTitle(t)

----------------------------------------------------------------------------
(* C4 *)

\* C4: a well-formed range without "!" resolves to sheet id 0, and the
\* resolver issues no request (no spreadsheet metadata is fetched).
C4_UnqualifiedIsSheetZero ==
  (Resolved /\ Bangs(call.range) = {} /\ WellFormed(call.range))
    => /\ outcome.status = "returned"
       /\ outcome.value.sheetId = 0
       /\ requests = <<>>

\* An unqualified range resolved to 0 on a spreadsheet none of whose sheets
\* has id 0.
C4_Witness ==
  /\ ResolvedOk
  /\ call.range = A1B2
  /\ outcome.value.sheetId = 0
  /\ requests = <<>>
  /\ \A i \in 1..Len(sheets) : sheets[i].sheetId # 0

----------------------------------------------------------------------------
(* C5 *)

\* C5: a non-empty title before the first "!" that is the title of no sheet
\* never resolves to a range, and once the sheet list has been fetched the
\* error is NOT_FOUND for a Sheet, carrying the title.
C5_UnknownTitleNotFound ==
  (/\ Resolved
   /\ Bangs(call.range) # {}
   /\ TitleText(call.range) # <<>>
   /\ TitleText(call.range) \notin TitlesOf(sheets))
    => /\ outcome.status = "threw"
       /\ RequestsOf("spreadsheets.get") # {}
       /\ AllAnswered =>
            /\ outcome.value.code = "NOT_FOUND"
            /\ outcome.value.message.args = <<"Sheet">>
            /\ outcome.value.details = [id |-> TitleText(call.range)]

C5_Witness ==
  /\ ResolveThrew("NOT_FOUND")
  /\ TitleText(call.range) = TNoSheet
  /\ WellFormed(CellText(call.range))
  /\ AllAnswered
  /\ Len(sheets) > 1

----------------------------------------------------------------------------
(* C6 *)

\* C6: the resolver returns a range only for a cell range of the form
\* C1 R1 ":" C2 R2, never rejects such a cell range as an invalid format,
\* and rejects every other cell range: with INVALID_INPUT carrying the input
\* whenever the sheet lookup, if there was one, found the sheet.
C6_AcceptsExactlyTheGrammar ==
  Resolved =>
    LET a1 == CellRangeTaken(call.range)
    IN  /\ outcome.status = "returned" => WellFormed(a1)
        /\ WellFormed(a1) => ~ResolveThrew("INVALID_INPUT")
        /\ ~WellFormed(a1) =>
             /\ outcome.status = "threw"
             /\ ((requests = <<>>) \/ (AllAnswered /\ Qualifier(call.range) \in TitlesOf(sheets)))
                  => /\ outcome.value.code = "INVALID_INPUT"
                     /\ outcome.value.message.args = <<call.range>>

\* Sheet9!A1:A1 is accepted, with start = end - 1 on both axes.
C6_Witness ==
  /\ ResolvedOk
  /\ call.range = TSheet9 \o <<"!">> \o A1A1
  /\ outcome.value.startRowIndex = outcome.value.endRowIndex - 1
  /\ outcome.value.startColumnIndex = outcome.value.endColumnIndex - 1

----------------------------------------------------------------------------
(* C9 *)

\* C9: every range the resolver returns has 0 <= startColumnIndex <
\* endColumnIndex and 0 <= startRowIndex < endRowIndex.
C9_StartBelowEnd ==
  ResolvedOk =>
    /\ 0 <= outcome.value.startColumnIndex
    /\ outcome.value.startColumnIndex < outcome.value.endColumnIndex
    /\ 0 <= outcome.value.startRowIndex
    /\ outcome.value.startRowIndex < outcome.value.endRowIndex

----------------------------------------------------------------------------
(* C10 *)

\* C10, its second half: an input that holds a "!" is split at the first one
\* only, the whole text after it being the cell range, so that a text after
\* the first "!" that is not C1 R1 ":" C2 R2 (as A1:B2!X in Sheet1!A1:B2!X)
\* never resolves to a range.
C10_SplitAtFirstBang ==
  (Resolved /\ Bangs(call.range) # {} /\ ~WellFormed(CellText(call.range)))
    => outcome.status = "threw"

----------------------------------------------------------------------------
(* formatCells and applyBorders when the range does not resolve *)

ClientOp == call.op \in {"formatCells", "applyBorders"}

AuthFailed == \E i \in RequestsOf("auth.authorize") : requests[i].result # "ok"
GetFailed == \E i \in RequestsOf("spreadsheets.get") : requests[i].result # "ok"

\* The input names a sheet the spreadsheet does not have.
TitleUnknown ==
  /\ Qualifier(call.range) # <<>>
  /\ Qualifier(call.range) \notin TitlesOf(sheets)

Malformed == ~WellFormed(CellRangeTaken(call.range))

\* The operation got as far as resolving its range, and that failed: the
\* sheet list could not be fetched, the title is unknown or the cell range
\* is malformed.
ResolutionFailed ==
  /\ ClientOp
  /\ ~AuthFailed
  /\ \/ Qualifier(call.range) # <<>> /\ GetFailed
     \/ TitleUnknown
     \/ Malformed

----------------------------------------------------------------------------
(* C7 *)

\* C7: when range resolution fails inside formatCells or applyBorders, the
\* operation throws, no batchUpdate request is sent, and the sheet list is
\* not fetched a second time.
C7_NoUpdateWithoutRange ==
  ResolutionFailed =>
    /\ outcome.status = "threw"
    /\ RequestsOf("spreadsheets.batchUpdate") = {}
    /\ Cardinality(RequestsOf("spreadsheets.get")) <= 1

C7_Witness ==
  /\ ResolutionFailed
  /\ call.op = "formatCells"
  /\ call.range = << "A", "1", "-", "B", "2" >>
  /\ outcome.status = "threw"
  /\ RequestsOf("spreadsheets.batchUpdate") = {}

----------------------------------------------------------------------------
(* C8 *)

\* C8: the error formatCells and applyBorders throw for a range that does
\* not resolve keeps its kind: NOT_FOUND carrying the title for an unknown
\* sheet title, INVALID_INPUT carrying the input for a malformed cell range,
\* and never API_ERROR, the code of a remote failure.
C8_ErrorKeepsItsKind ==
  (ResolutionFailed /\ ~GetFailed)
    => /\ outcome.status = "threw"
       /\ outcome.value.code # "API_ERROR"
       /\ TitleUnknown =>
            /\ outcome.value.code = "NOT_FOUND"
            /\ outcome.value.details = [id |-> Qualifier(call.range)]
       /\ (~TitleUnknown /\ Malformed) =>
            /\ outcome.value.code = "INVALID_INPUT"
            /\ outcome.value.message.args = <<call.range>>

----------------------------------------------------------------------------
(* The colour grammar, stated without the parser's own tests *)

HexDigitValues ==
  << <<"0", 0>>, <<"1", 1>>, <<"2", 2>>, <<"3", 3>>, <<"4", 4>>, <<"5", 5>>,
     <<"6", 6>>, <<"7", 7>>, <<"8", 8>>, <<"9", 9>>,
     <<"a", 10>>, <<"b", 11>>, <<"c", 12>>, <<"d", 13>>, <<"e", 14>>, <<"f", 15>>,
     <<"A", 10>>, <<"B", 11>>, <<"C", 12>>, <<"D", 13>>, <<"E", 14>>, <<"F", 15>> >>

IsHexChar(c) == \E i \in 1..Len(HexDigitValues) : HexDigitValues[i][1] = c
DigitOf(c) == HexDigitValues[CHOOSE i \in 1..Len(HexDigitValues) : HexDigitValues[i][1] = c][2]

\* The token without its optional leading "#".
HexBody(t) == IF t # <<>> /\ t[1] = "#" THEN Tail(t) ELSE t

\* The token matches ^#?[0-9A-Fa-f]{6}$.
IsHexToken(t) == Len(HexBody(t)) = 6 /\ \A i \in 1..6 : IsHexChar(HexBody(t)[i])

\* The value 0..255 of the k-th two-digit channel of a hex token.
Channel(t, k) == 16 * DigitOf(HexBody(t)[2 * k - 1]) + DigitOf(HexBody(t)[2 * k])

TwelveNames ==
  { << "r", "e", "d" >>, << "g", "r", "e", "e", "n" >>, << "b", "l", "u", "e" >>,
    << "y", "e", "l", "l", "o", "w" >>, << "o", "r", "a", "n", "g", "e" >>,
    << "p", "u", "r", "p", "l", "e" >>, << "p", "i", "n", "k" >>,
    << "w", "h", "i", "t", "e" >>, << "b", "l", "a", "c", "k" >>, << "g", "r", "a", "y" >>,
    << "l", "i", "g", "h", "t", "g", "r", "a", "y" >>,
    << "d", "a", "r", "k", "g", "r", "a", "y" >> }

\* t is the name n up to the case of its letters.
FoldsTo(t, n) ==
  /\ Len(t) = Len(n)
  /\ \A i \in 1..Len(t) :
       t[i] = n[i] \/ \E k \in 1..Len(Upper) : Upper[k] = t[i] /\ Lower[k] = n[i]

IsNameToken(t) == \E n \in TwelveNames : FoldsTo(t, n)
NameOf(t) == CHOOSE n \in TwelveNames : FoldsTo(t, n)

\* The channel x is the number n/d.
IsNumber(x, n, d) == x # NaN /\ x.num * d = n * x.den

ColorParsed == call.op = "parseColorInput" /\ outcome.status # "pending"

----------------------------------------------------------------------------
(* C11 *)

\* C11: a colour token that is neither six hex digits with an optional
\* leading "#" nor one of the twelve names in any case makes parseColorInput
\* throw the invalid-token error (INVALID_INPUT) carrying the token; no
\* Color is returned for it, also when it starts with "#".
C11_InvalidTokenFails ==
  (ColorParsed /\ ~IsHexToken(call.colorInput) /\ ~IsNameToken(call.colorInput))
    => /\ outcome.status = "threw"
       /\ outcome.value.code = "INVALID_INPUT"
       /\ outcome.value.message.args = <<call.colorInput>>

----------------------------------------------------------------------------
(* C12 *)

\* C12: for a token matching ^#?[0-9A-Fa-f]{6}$, parseColorInput returns
\* red, green and blue equal to the three successive two-digit hex values
\* over 255 and alpha 1, the same with and without the leading "#".
C12_HexChannels ==
  (ColorParsed /\ IsHexToken(call.colorInput))
    => /\ outcome.status = "returned"
       /\ DOMAIN outcome.value = {"red", "green", "blue", "alpha"}
       /\ IsNumber(outcome.value.red, Channel(call.colorInput, 1), 255)
       /\ IsNumber(outcome.value.green, Channel(call.colorInput, 2), 255)
       /\ IsNumber(outcome.value.blue, Channel(call.colorInput, 3), 255)
       /\ IsNumber(outcome.value.alpha, 1, 1)
       /\ outcome.value = parseColorInput(HexBody(call.colorInput)).value

C12_Witness ==
  /\ ColorParsed
  /\ call.colorInput = << "#", "4", "2", "8", "5", "f", "4" >>
  /\ outcome.status = "returned"
  /\ IsNumber(outcome.value.red, 66, 255)
  /\ IsNumber(outcome.value.green, 133, 255)
  /\ IsNumber(outcome.value.blue, 244, 255)

----------------------------------------------------------------------------
(* C13 *)

\* C13: the table of named colours has exactly the twelve names; a token
\* that is one of them in any case returns the colour of the name, with
\* alpha 1 and every channel in 0..1, and orange in any case is exactly
\* red 1, green 0.65, blue 0, alpha 1.
C13_NamedColours ==
  /\ Len(namedColors) = 12
  /\ {namedColors[i].name : i \in 1..Len(namedColors)} = TwelveNames
  /\ (ColorParsed /\ IsNameToken(call.colorInput))
       => /\ outcome.status = "returned"
          /\ DOMAIN outcome.value = {"red", "green", "blue", "alpha"}
          /\ IsNumber(outcome.value.alpha, 1, 1)
          /\ \A ch \in {"red", "green", "blue"} :
               /\ outcome.value[ch] # NaN
               /\ 0 <= outcome.value[ch].num
               /\ outcome.value[ch].num <= outcome.value[ch].den
          /\ outcome.value = parseColorInput(NameOf(call.colorInput)).value
          /\ NameOf(call.colorInput) = << "o", "r", "a", "n", "g", "e" >>
               => /\ IsNumber(outcome.value.red, 1, 1)
                  /\ IsNumber(outcome.value.green, 65, 100)
                  /\ IsNumber(outcome.value.blue, 0, 1)

C13_Witness ==
  /\ ColorParsed
  /\ call.colorInput = << "O", "R", "A", "N", "G", "E" >>
  /\ outcome.status = "returned"
  /\ IsNumber(outcome.value.green, 65, 100)
  /\ IsNumber(outcome.value.alpha, 1, 1)

----------------------------------------------------------------------------
(* The request formatCells sends, read from the request log *)

\* formatCells got as far as sending its batchUpdate.
FormatSent ==
  /\ call.op = "formatCells"
  /\ RequestsOf("spreadsheets.batchUpdate") # {}

\* The first request of the batchUpdate the operation sent.
SentRequest ==
  requests[CHOOSE i \in RequestsOf("spreadsheets.batchUpdate") : TRUE].requests[1]

\* The names of the field mask, in order and as a set.
Mask == SentRequest.repeatCell.fields.names
MaskSet == {Mask[i] : i \in 1..Len(Mask)}

\* The payload userEnteredFormat.
Payload == SentRequest.repeatCell.cell.userEnteredFormat

\* The fields of a format object as paths: its keys, and the keys of its
\* textFormat under "textFormat".
PathsOf(obj) ==
  {<<k>> : k \in DOMAIN obj \ {"textFormat"}}
    \cup (IF "textFormat" \in DOMAIN obj
            THEN {<<"textFormat", t>> : t \in DOMAIN obj.textFormat}
            ELSE {})

\* The one order of the field names.
MaskOrder ==
  << <<"backgroundColor">>, <<"textFormat", "bold">>, <<"textFormat", "italic">>,
     <<"textFormat", "underline">>, <<"textFormat", "strikethrough">>,
     <<"textFormat", "fontSize">>, <<"textFormat", "fontFamily">>,
     <<"textFormat", "foregroundColor">>, <<"horizontalAlignment">>,
     <<"verticalAlignment">>, <<"wrapStrategy">>, <<"numberFormat">> >>

PlaceInOrder(name) == CHOOSE p \in 1..Len(MaskOrder) : MaskOrder[p] = name

----------------------------------------------------------------------------
(* C14 *)

\* C14: the field mask formatCells sends names a field if and only if the
\* field is present in the CellFormat it was given, whatever the field's
\* value (bold=false, fontSize=0 and fontFamily="" are named when present).
C14_MaskNamesWhatIsPresent ==
  FormatSent => MaskSet = PathsOf(call.format)

----------------------------------------------------------------------------
(* C15 *)

\* C15: in the request formatCells sends, a key is in the payload
\* userEnteredFormat if and only if the field mask names it, and no empty
\* textFormat object is in the payload.
C15_PayloadAgreesWithMask ==
  FormatSent =>
    /\ PathsOf(Payload) = MaskSet
    /\ "textFormat" \in DOMAIN Payload => DOMAIN Payload.textFormat # {}

----------------------------------------------------------------------------
(* C16 *)

\* C16: every field mask formatCells sends lists its names in the one fixed
\* order (backgroundColor, the textFormat fields, the alignments,
\* wrapStrategy, numberFormat): it is a subsequence of that list, without
\* duplicates.
C16_MaskInFixedOrder ==
  FormatSent =>
    /\ \A i \in 1..Len(Mask) : \E p \in 1..Len(MaskOrder) : MaskOrder[p] = Mask[i]
    /\ \A i, j \in 1..Len(Mask) :
         i < j => PlaceInOrder(Mask[i]) < PlaceInOrder(Mask[j])

C16_Witness ==
  /\ FormatSent
  /\ Len(Mask) >= 5
  /\ Mask[1] = <<"backgroundColor">>
  /\ Mask[2] = <<"textFormat", "italic">>
  /\ Mask[Len(Mask)] = <<"numberFormat">>

----------------------------------------------------------------------------
(* C17 *)

\* C17: given a CellFormat with no field and a range that resolves,
\* formatCells raises no error of its own: it sends exactly one batchUpdate
\* holding exactly one repeatCell request with an empty payload and an empty
\* field list, and throws only if that request fails.
C17_EmptyFormatStillSent ==
  (call.op = "formatCells" /\ call.format = EmptyObject
     /\ ~AuthFailed /\ ~ResolutionFailed)
    => /\ Cardinality(RequestsOf("spreadsheets.batchUpdate")) = 1
       /\ \A i \in RequestsOf("spreadsheets.batchUpdate") :
            /\ Len(requests[i].requests) = 1
            /\ DOMAIN requests[i].requests[1] = {"repeatCell"}
            /\ requests[i].requests[1].repeatCell.cell.userEnteredFormat = EmptyObject
            /\ requests[i].requests[1].repeatCell.fields.names = <<>>
            /\ outcome.status = "threw" <=> requests[i].result # "ok"

C17_Witness ==
  /\ call.op = "formatCells"
  /\ call.format = EmptyObject
  /\ call.range = A1B2
  /\ outcome.status = "returned"
  /\ Cardinality(RequestsOf("spreadsheets.batchUpdate")) = 1
  /\ Mask = <<>>

----------------------------------------------------------------------------
(* The request applyBorders sends, read from the request log *)

BordersSent ==
  /\ call.op = "applyBorders"
  /\ RequestsOf("spreadsheets.batchUpdate") # {}

\* The edges the border spec holds.
EdgesOf(borders) == DOMAIN borders \cap {"top", "bottom", "left", "right"}

BorderStyles == {"DOTTED", "DASHED", "SOLID", "SOLID_MEDIUM", "SOLID_THICK", "DOUBLE"}

----------------------------------------------------------------------------
(* C18 *)

\* C18: an edge the border spec holds without a colour is sent with the
\* colour opaque black: red 0, green 0, blue 0 and alpha 1.
C18_DefaultColourOpaqueBlack ==
  BordersSent =>
    \A e \in EdgesOf(call.borders) :
      "color" \notin DOMAIN call.borders[e] =>
        /\ e \in DOMAIN SentRequest.updateBorders
        /\ DOMAIN SentRequest.updateBorders[e].color = {"red", "green", "blue", "alpha"}
        /\ IsNumber(SentRequest.updateBorders[e].color.red, 0, 1)
        /\ IsNumber(SentRequest.updateBorders[e].color.green, 0, 1)
        /\ IsNumber(SentRequest.updateBorders[e].color.blue, 0, 1)
        /\ IsNumber(SentRequest.updateBorders[e].color.alpha, 1, 1)

----------------------------------------------------------------------------
(* C19 *)

\* C19: when authorization and range resolution succeed, applyBorders sends
\* exactly one batchUpdate holding exactly one updateBorders request; its
\* keys besides range are exactly the edges of the border spec, each with a
\* style (one of the six line styles, never a clearing one) and a colour;
\* an edge the spec does not hold is not in the request.
C19_OnlyListedEdges ==
  (call.op = "applyBorders" /\ ~AuthFailed /\ ~ResolutionFailed)
    => /\ Cardinality(RequestsOf("spreadsheets.batchUpdate")) = 1
       /\ \A i \in RequestsOf("spreadsheets.batchUpdate") :
            /\ Len(requests[i].requests) = 1
            /\ DOMAIN requests[i].requests[1] = {"updateBorders"}
            /\ DOMAIN requests[i].requests[1].updateBorders
                 = {"range"} \cup EdgesOf(call.borders)
            /\ \A e \in EdgesOf(call.borders) :
                 /\ DOMAIN requests[i].requests[1].updateBorders[e] = {"style", "color"}
                 /\ requests[i].requests[1].updateBorders[e].style \in BorderStyles

C19_Witness ==
  /\ BordersSent
  /\ call.borders = [top |-> [style |-> "SOLID"]]
  /\ DOMAIN SentRequest.updateBorders = {"range", "top"}
  /\ SentRequest.updateBorders.top.style = "SOLID"
  /\ outcome.status = "returned"

----------------------------------------------------------------------------
(* C20 *)

\* C20: resolving a range issues no request but spreadsheets.get, the
\* read of the sheet list: at most one for a range with a "!", none for a
\* range without, and it leaves the client's state as it was.
C20_ResolverOnlyReads ==
  Resolved =>
    /\ \A i \in 1..Len(requests) : requests[i].method = "spreadsheets.get"
    /\ Len(requests) <= 1
    /\ Bangs(call.range) = {} => requests = <<>>
    /\ initialized

C20_Witness ==
  /\ ResolvedOk
  /\ Bangs(call.range) # {}
  /\ Len(requests) = 1
  /\ requests[1].method = "spreadsheets.get"

----------------------------------------------------------------------------
(* C21 *)

\* The dimension range of the request a resize operation sent.
AddressedRange ==
  IF call.op = "autoResizeColumns"
    THEN SentRequest.autoResizeDimensions.dimensions
    ELSE SentRequest.updateDimensionProperties.range

\* The zero-based indices a dimension range with exclusive end covers.
Covered(range) ==
  {i \in (0 - 2)..(MaxIndex + 2) : range.startIndex <= i /\ i < range.endIndex}

ResizeSent ==
  /\ call.op \in {"resizeColumns", "resizeRows", "autoResizeColumns"}
  /\ RequestsOf("spreadsheets.batchUpdate") # {}

\* C21: resizeColumns and autoResizeColumns with start s and end e address
\* the zero-based columns s..e inclusive (startIndex s, endIndex e + 1) of
\* the sheet with the title, and resizeRows with start s and end e the
\* one-based rows s..e inclusive (startIndex s - 1, endIndex e).
C21_ResizeAddressesInclusive ==
  ResizeSent =>
    /\ AddressedRange.sheetId = IdOfTitle(call.title)
    /\ call.op \in {"resizeColumns", "autoResizeColumns"} =>
         /\ AddressedRange.dimension = "COLUMNS"
         /\ AddressedRange.startIndex = call.start
         /\ AddressedRange.endIndex = call.end + 1
         /\ Covered(AddressedRange) = call.start..call.end
    /\ call.op = "resizeRows" =>
         /\ AddressedRange.dimension = "ROWS"
         /\ AddressedRange.startIndex = call.start - 1
         /\ AddressedRange.endIndex = call.end
         /\ {i + 1 : i \in Covered(AddressedRange)} = call.start..call.end

C21_Witness ==
  /\ ResizeSent
  /\ call.op = "resizeRows"
  /\ call.start = 1
  /\ call.end = 2
  /\ AddressedRange.startIndex = 0
  /\ AddressedRange.endIndex = 2
  /\ outcome.status = "returned"

----------------------------------------------------------------------------
(* C22 *)

\* The borders command ran without --json.
FromFlags ==
  /\ call.op = "format borders"
  /\ outcome.status # "pending"
  /\ ~Has(call.options, "json")

\* The --color given is no colour: not six hex digits with an optional "#",
\* not one of the twelve names.
InvalidColorGiven ==
  /\ Has(call.options, "color")
  /\ ~IsHexToken(call.options.color)
  /\ ~IsNameToken(call.options.color)

\* The colour a valid --color stands for.
ColorOfToken(t) ==
  IF IsHexToken(t)
    THEN [red |-> Ratio(Channel(t, 1), 255), green |-> Ratio(Channel(t, 2), 255),
          blue |-> Ratio(Channel(t, 3), 255), alpha |-> Ratio(1, 1)]
    ELSE parseColorInput(NameOf(t)).value

\* The edges sent are all four with --all and otherwise the flagged ones,
\* each with the --style (SOLID when none) and the colour of --color.
C22_EdgesAsFlagged ==
  (FromFlags /\ RequestsOf("spreadsheets.batchUpdate") # {} /\ ~InvalidColorGiven)
    => /\ DOMAIN SentRequest.updateBorders \ {"range"}
            = IF Has(call.options, "all") THEN {"top", "bottom", "left", "right"}
              ELSE DOMAIN call.options \cap {"top", "bottom", "left", "right"}
       /\ \A e \in DOMAIN SentRequest.updateBorders \ {"range"} :
            /\ SentRequest.updateBorders[e].style
                 = IF Has(call.options, "style") THEN call.options.style ELSE "SOLID"
            /\ Has(call.options, "color")
                 => SentRequest.updateBorders[e].color = ColorOfToken(call.options.color)

\* A --color that is no colour makes the command fail with nothing sent.
C22_InvalidColourFails ==
  (FromFlags /\ InvalidColorGiven) => (outcome.status = "threw" /\ requests = <<>>)

\* C22: without --json the borders command builds exactly the four edges
\* with --all and otherwise exactly the flagged ones, every edge with the
\* --style value (SOLID when none) and the parsed --color, and an invalid
\* --color fails before any request is sent.
C22_BordersFromFlags == C22_EdgesAsFlagged /\ C22_InvalidColourFails

----------------------------------------------------------------------------
(* The requests of the script commands, read from the request log *)

\* The positions of the log at which the method was requested, and at which
\* it was answered ok.
Asked(log, method) == {i \in 1..Len(log) : log[i].method = method}
Answered(log, method) == {i \in Asked(log, method) : log[i].result = "ok"}

\* createProject was called: it requests script.projects.create at once.
\* writeFile was called: it requests script.projects.getContent at once.
CreateCalls(log) == Asked(log, "script.projects.create")
WriteCalls(log) == Asked(log, "script.projects.getContent")

\* The listing told the command whether a script is attached: it was
\* answered, or refused with 404.
ListingTold(log) ==
  \E i \in Asked(log, "drive.files.list") : log[i].result \in {"ok", "404"}

\* The positions of the log at which a script project became known: a
\* listing of a spreadsheet with a script, or a project created.
ProjectKnownAt(remote, log) ==
  {i \in Answered(log, "drive.files.list") : remote.spreadsheet = "scripted"}
    \cup Answered(log, "script.projects.create")

----------------------------------------------------------------------------
(* C23 *)

\* A step that runs deployScript with the credentials configured.
DeployStep == Idle /\ call'.op = "deployScript" /\ call'.credentials = "ok"

\* C23: deployScript calls createProject only when the spreadsheet has no
\* attached script and createIfMissing is set; when the local script file
\* does not exist it fails with INVALID_INPUT before any API call; when no
\* script is attached and createIfMissing is not set it calls neither
\* createProject nor writeFile and fails with SCRIPT_NOT_FOUND; writeFile
\* is called only after a script project is known.
C23_DeployCreatesOnlyWhenAsked ==
  [][DeployStep =>
       /\ CreateCalls(requests') # {}
            => /\ project.spreadsheet # "scripted"
               /\ Flag(call'.options, "createIfMissing")
               /\ call'.exists
       /\ ~call'.exists
            => /\ outcome'.status = "threw"
               /\ outcome'.value.code = "INVALID_INPUT"
               /\ requests' = <<>>
       /\ (call'.exists /\ project.spreadsheet # "scripted"
             /\ ~Flag(call'.options, "createIfMissing"))
            => /\ CreateCalls(requests') = {}
               /\ WriteCalls(requests') = {}
               /\ project' = project
               /\ ListingTold(requests')
                    => (outcome'.status = "threw" /\ outcome'.value.code = "SCRIPT_NOT_FOUND")
       /\ \A w \in WriteCalls(requests') :
            \E k \in ProjectKnownAt(project, requests') : k < w
  ]_vars

C23_Witness ==
  /\ call.op = "deployScript"
  /\ call.credentials = "ok"
  /\ Flag(call.options, "createIfMissing")
  /\ Answered(requests, "script.projects.create") # {}
  /\ Answered(requests, "script.projects.updateContent") # {}
  /\ outcome.status = "returned"
  /\ project.spreadsheet = "scripted"
  /\ Len(project.files) = 1

----------------------------------------------------------------------------
(* C24 *)

\* getConfiguredTemplate ran on a template of the registry whose file is
\* installed.
Configured ==
  /\ call.op = "getConfiguredTemplate"
  /\ outcome.status # "pending"
  /\ \E i \in 1..Len(TEMPLATES) : TEMPLATES[i].name = call.name
  /\ call.installed

\* The variables the registry declares for the template of the call.
Declared == (CHOOSE t \in {TEMPLATES[i] : i \in 1..Len(TEMPLATES)} : t.name = call.name).variables

\* The config leaves out only variables that are not required or that
\* declare a default, and leaves none empty.
OnlyDefaultedOmitted ==
  /\ \A k \in DOMAIN call.config : call.config[k] # ""
  /\ \A i \in 1..Len(Declared) :
       \/ Declared[i].name \in DOMAIN call.config
       \/ "default" \in DOMAIN Declared[i]
       \/ ~("required" \in DOMAIN Declared[i] /\ Declared[i].required)

----------------------------------------------------------------------------
(* C25 *)

\* applyTemplate ran with the credentials configured.
TemplateApplied ==
  /\ call.op = "applyTemplate"
  /\ outcome.status # "pending"
  /\ call.credentials = "ok"

RegistryNames == {"auto-refresh", "custom-menu", "on-edit-validator"}

TemplateUnknown == call.templateName \notin RegistryNames

ConfigFileMissing == "config" \in DOMAIN call.options /\ ~call.options.config.exists

\* The config the command was given: that of the --config file, none
\* without the option.
GivenConfig ==
  IF "config" \in DOMAIN call.options THEN call.options.config.config ELSE <<>>

\* The config was read, and leaves out a variable its template requires
\* (auto-refresh requires API_URL and TARGET_RANGE, the others nothing).
RequiredVariableMissing ==
  /\ call.templateName = "auto-refresh"
  /\ "config" \in DOMAIN call.options
       => (call.options.config.exists /\ "config" \in DOMAIN call.options.config)
  /\ \E k \in {"API_URL", "TARGET_RANGE"} : k \notin DOMAIN GivenConfig

\* C25: applyTemplate issues no Drive or Apps Script request when the
\* template name is unknown, the config file is missing or a required
\* variable is missing from the config; it fails with TEMPLATE_NOT_FOUND,
\* INVALID_INPUT or INVALID_TEMPLATE_CONFIG before the first remote call.
C25_ValidationBeforeRemote ==
  (TemplateApplied /\ (TemplateUnknown \/ ConfigFileMissing \/ RequiredVariableMissing))
    => /\ requests = <<>>
       /\ outcome.status = "threw"
       /\ outcome.value.code \in {"TEMPLATE_NOT_FOUND", "INVALID_INPUT", "INVALID_TEMPLATE_CONFIG"}
       /\ TemplateUnknown => outcome.value.code = "TEMPLATE_NOT_FOUND"
       /\ (~TemplateUnknown /\ ConfigFileMissing) => outcome.value.code = "INVALID_INPUT"
       /\ (RequiredVariableMissing /\ call.installed)
            => outcome.value.code = "INVALID_TEMPLATE_CONFIG"

C25_Witness ==
  /\ TemplateApplied
  /\ call.templateName = "auto-refresh"
  /\ call.installed
  /\ "config" \in DOMAIN call.options
  /\ call.options.config.exists
  /\ "config" \in DOMAIN call.options.config
  /\ DOMAIN call.options.config.config = {"API_KEY"}
  /\ project.spreadsheet = "scripted"
  /\ outcome.status = "threw"
  /\ outcome.value.code = "INVALID_TEMPLATE_CONFIG"
  /\ requests = <<>>

----------------------------------------------------------------------------
(* C26 *)

ErrorHandled == call.op = "handleGoogleAPIError" /\ outcome.status # "pending"

\* C26: handleGoogleAPIError never returns: for every error it throws a
\* SheetFreakError, with code AUTHENTICATION_ERROR when error.code is 401 or
\* 403, NOT_FOUND when it is 404, QUOTA_EXCEEDED when it is 429 and
\* API_ERROR for every other error.code.
C26_AlwaysThrowsByCode ==
  ErrorHandled
    => /\ outcome.status = "threw"
       /\ outcome.value.name = "SheetFreakError"
       /\ outcome.value.code =
            CASE call.error.code \in {"401", "403"} -> "AUTHENTICATION_ERROR"
              [] call.error.code = "404" -> "NOT_FOUND"
              [] call.error.code = "429" -> "QUOTA_EXCEEDED"
              [] OTHER -> "API_ERROR"

C26_Witness ==
  /\ ErrorHandled
  /\ call.error.name = "SheetFreakError"
  /\ call.error.code = "NOT_FOUND"
  /\ outcome.status = "threw"
  /\ outcome.value.code = "API_ERROR"
  /\ outcome.value.details = call.error

----------------------------------------------------------------------------
(* C27 *)

\* A step that runs deleteSheet or renameSheet with a title that none of
\* the sheets has, on a client that authorizes and gets the sheets listed.
UnmatchedTitleStep ==
  /\ Idle
  /\ call'.op \in {"deleteSheet", "renameSheet"}
  /\ \A i \in 1..Len(sheets) : sheets[i].title # call'.title
  /\ \A i \in 1..Len(requests') : requests'[i].result = "ok"
  /\ \E i \in 1..Len(requests') : requests'[i].method = "spreadsheets.get"

\* C27: deleteSheet and renameSheet with a title that matches no sheet send
\* no batchUpdate, leave the spreadsheet unchanged and fail with an error
\* whose code is NOT_FOUND.
C27_UnmatchedTitleNotFound ==
  [][UnmatchedTitleStep =>
       /\ \A i \in 1..Len(requests') : requests'[i].method # "spreadsheets.batchUpdate"
       /\ sheets' = sheets
       /\ outcome'.status = "threw"
       /\ outcome'.value.code = "NOT_FOUND"
  ]_vars

\* The part of C27 the code keeps: nothing is sent, nothing changes, and the
\* operation fails.
C27_NothingSent ==
  [][UnmatchedTitleStep =>
       /\ \A i \in 1..Len(requests') : requests'[i].method # "spreadsheets.batchUpdate"
       /\ sheets' = sheets
       /\ outcome'.status = "threw"
       /\ outcome'.value.code = "API_ERROR"
       /\ outcome'.value.details.code = "NOT_FOUND"
  ]_vars

----------------------------------------------------------------------------
(* C28 *)

\* The positions of a request log at which authorize() was called, and at
\* which it succeeded.
AuthorizeCalls(log) == {i \in 1..Len(log) : log[i].method = "auth.authorize"}
AuthorizeSuccesses(log) == {i \in AuthorizeCalls(log) : log[i].result = "ok"}

\* A step in which the client runs one operation.
OperationStep == Idle /\ call'.op # "none"

\* C28: over any sequence of awaited operations of one client, no Sheets
\* API request is issued before authorize() has succeeded, authorize()
\* succeeds at most once for the instance, and a failed authorize() leaves
\* the instance unauthorized, so that the next operation authorizes again.
C28_AuthorizeOnceBeforeRequests ==
  [][/\ initialized => initialized'
     /\ OperationStep =>
          /\ \A i \in 1..Len(requests') :
               requests'[i].method # "auth.authorize"
                 => (initialized \/ \E j \in AuthorizeSuccesses(requests') : j < i)
          /\ initialized => AuthorizeCalls(requests') = {}
          /\ Cardinality(AuthorizeSuccesses(requests')) <= 1
          /\ initialized' = (initialized \/ AuthorizeSuccesses(requests') # {})
          /\ ~initialized
               => /\ requests' # <<>>
                  /\ requests'[1].method = "auth.authorize"
                  /\ requests'[1].result # "ok"
                       => (Len(requests') = 1 /\ ~initialized' /\ outcome'.status = "threw")
  ]_vars

C28_Witness ==
  /\ initialized
  /\ call.op = "resizeRows"
  /\ AuthorizeCalls(requests) = {}
  /\ \E i \in 1..Len(requests) : requests[i].method = "spreadsheets.batchUpdate"
  /\ outcome.status = "returned"

----------------------------------------------------------------------------
(* C29 *)

\* writeFile got the files of the project.
FilesFetched ==
  /\ call.op = "writeFile"
  /\ Answered(requests, "script.projects.getContent") # {}

\* The list getContent fetched and the lists updateContent was sent.
FetchedList == requests[CHOOSE i \in Answered(requests, "script.projects.getContent") : TRUE].files
Updates == Asked(requests, "script.projects.updateContent")
SentList == requests[CHOOSE i \in Updates : TRUE].files

\* The positions of a list that hold a file of the name written.
Named(files) == {i \in 1..Len(files) : files[i].name = call.fileName}

\* The file is the one written.
IsWritten(file) ==
  /\ file.name = call.fileName
  /\ file.source = call.source
  /\ file.type = call.type

\* The file sent is the file fetched.
Kept(sent, fetched) ==
  /\ sent.name = fetched.name
  /\ sent.type = fetched.type
  /\ sent.source = fetched.source

\* C29: writeFile sends one updateContent whose list is the fetched list
\* with the file of the name replaced in place (source and type) when there
\* was one, and appended at the end when there was none; every other file
\* keeps its name, type, source and position, and exactly one file of the
\* list has the name.
C29_ReplacedInPlaceOrAppended ==
  FilesFetched
    => /\ Cardinality(Updates) = 1
       /\ Cardinality(Named(SentList)) = 1
       /\ \A i \in 1..Len(FetchedList) :
            /\ i \in DOMAIN SentList
            /\ IF i \in Named(FetchedList) THEN IsWritten(SentList[i])
               ELSE Kept(SentList[i], FetchedList[i])
       /\ IF Named(FetchedList) # {} THEN Len(SentList) = Len(FetchedList)
          ELSE /\ Len(SentList) = Len(FetchedList) + 1
               /\ IsWritten(SentList[Len(SentList)])

C29_Witness ==
  /\ FilesFetched
  /\ Len(FetchedList) = 2
  /\ Named(FetchedList) = {1}
  /\ FetchedList[1].type = "HTML"
  /\ call.type = "SERVER_JS"
  /\ outcome.status = "returned"
  /\ Len(project.files) = 2
  /\ IsWritten(project.files[1])

====
